---- MODULE Spec2Model ----
(***************************************************************************)
(* Model of the server-side rate limiter (rate-limit.ts): the module-level *)
(* storage factory, the in-memory and database backends, and the sync and  *)
(* async public API.  Times are milliseconds; the clock starts at 0.       *)
(***************************************************************************)
EXTENDS Integers, Sequences, FiniteSets, TLC

-----------------------------------------------------------------------------
(* Configuration (rate-limit.ts, lines 22-25) *)

MAX_ATTEMPTS == 5
WINDOW_MS == 900000
LOCKOUT_MS == 1800000

(* Bounds of the model *)
MaxTicks == 4
MaxFails == 6
MaxFaults == 2
MaxAwaits == 8
MaxClientTicks == 2
MaxReloads == 2

(* Amounts by which the clock advances in one step *)
Steps == {1, WINDOW_MS}

-----------------------------------------------------------------------------
(* Identities.  A string is a sequence of characters. *)

Emails == { <<"a", "@">>, <<"A", "@">> }

LowerChar(c) ==
    CASE c = "A" -> "a"
      [] OTHER -> c

ToLowerCase(s) == [i \in DOMAIN s |-> LowerChar(s[i])]

KeyOfRaw(email) == email

\* const key = email.toLowerCase()
KeyOf(email) == ToLowerCase(email)

\* a second identity, for the stores that hold more than one record
OtherEmail == <<"b", "@">>
SweepEmails == Emails \cup {OtherEmail}

Identities == {ToLowerCase(e) : e \in SweepEmails}
AllKeys == SweepEmails \cup Identities

Tasks == {"t1", "t2"}

-----------------------------------------------------------------------------
(* Values *)

\* the value of `storage` / a store reference held by a call
NullStore == [kind |-> "null", id |-> 0]
MemStore(i) == [kind |-> "mem", id |-> i]
DbStore(j) == [kind |-> "db", id |-> j]

\* AttemptRecord; lockedUntil = 0 stands for undefined (both are falsy)
Rec(c, f, l) == [count |-> c, firstAttempt |-> f, lockedUntil |-> l]
NoRec == Rec(0, 0, 0)

\* the object returned by checkRateLimit; -1 stands for an absent field
Result(lim, retry, rem) ==
    [isLimited |-> lim, retryAfter |-> retry, remainingAttempts |-> rem]
NotLimitedFull == Result(FALSE, -1, MAX_ATTEMPTS)
NoResult == Result(FALSE, -1, -1)

\* Math.ceil(x / d) for x >= 0
Ceil(x, d) == (x + d - 1) \div d

\* the key getStorage probes the table with
TestKey == <<"_">>

EmptyMap == [k \in AllKeys |-> 0]

\* a store without records, as the records it holds per key
NoRecords == [k \in AllKeys |-> NoRec]

\* an async call: where it is suspended and its local variables
IdleTask ==
    [pc |-> "idle", op |-> "none", email |-> <<>>, detached |-> FALSE,
     store |-> NullStore, key |-> <<>>, tnow |-> 0,
     rec |-> 0,          \* record, when it is an object of a MemoryStorage map (its id)
     val |-> NoRec,      \* record, when it was built from a database row
     call |-> "none", ckey |-> <<>>, arg |-> NoRec, dbi |-> 0, stage |-> "none",
     res |-> NoResult, raised |-> FALSE,
     qfail |-> FALSE,     \* a query of this call failed
     getFailed |-> FALSE, \* store.get(key) of this call did not reach the table
     delFailed |-> FALSE] \* the DELETE of this call failed

\* no call in flight
NoTasks == [t \in Tasks |-> IdleTask]

NoOp ==
    [op |-> "none", email |-> <<>>, at |-> 0, res |-> NoResult, async |-> FALSE,
     raised |-> FALSE, qfail |-> FALSE, getFailed |-> FALSE,
     delFailed |-> FALSE,
     left |-> NoRec,          \* the record the storage in use held for the key when the call returned
     afterClear |-> "no",     \* this check follows a clear of the same identity: "no", "ok", "failed"
     prior |-> "none",        \* what that clear found: "none", "partial", "locked"
     expired |-> FALSE,       \* this check came after the window of an unlocked identity had elapsed
     afterExpired |-> FALSE,  \* this record follows such a check
     before |-> NoRecords]    \* what the store held when this sweep began

VARIABLES
    now,              \* Date.now()
    ticks,            \* number of clock advances so far
    STORAGE_TYPE,     \* process.env.RATE_LIMIT_STORAGE
    storage,          \* let storage
    databaseStorage,  \* let databaseStorage (index into dbInst, 0 = null)
    memoryStorage,    \* let memoryStorage (index into memInst, 0 = null)
    memInst,          \* the MemoryStorage instances: their `attempts` maps (key -> object id, 0 = absent)
    dbInst,           \* the DatabaseStorage instances: their tableExists ("null", "true", "false")
    heap,             \* the AttemptRecord objects of the in-memory maps, by object id
    table,            \* the rows of "RateLimitAttempt" (key -> record, NoRec = no row)
    tasks,            \* the async calls in flight
    faults,           \* number of database queries that have failed so far
    lastOp,           \* the last API call that completed, with what it returned
    gCount, gFirst, gLast, gLock, gLockLast, gClean,  \* history of each identity since its last clear
    gSpelling,        \* the spelling under which the latest failure of each identity was recorded
    twin,             \* the module state of a second process, configured with RATE_LIMIT_STORAGE=memory
    twinOp            \* the second process's last completed call and its calls in flight

\* the tRPC server (trpc/init.ts)
VARIABLES
    opAttempts,       \* the records of the per-operation limiter (key -> record, NoRec = none)
    reqs,             \* the requests being handled by the rate-limit middleware
    mwLast,           \* the last request that left the server, with what happened to it
    passed            \* per key, the number of requests for which next() was invoked

world == <<storage, databaseStorage, memoryStorage, memInst, dbInst, heap, table>>
ghosts == <<gCount, gFirst, gLast, gLock, gLockLast, gClean, gSpelling>>
twins == <<twin, twinOp>>
\* the password prompt in the browser (PasswordPrompt)
VARIABLES
    props,            \* the props of the mounted prompt
    ui,               \* its React state, and the time of its last render
    local,            \* the browser's localStorage and sessionStorage
    sub,              \* the handleSubmit in flight: its closure and where it is suspended
    lastSub,          \* the last handleSubmit that finished, with what it did and left
    hist,             \* the failures since the last success and the last rejection
    page              \* the life of the page: mounts, reloads, and what they found and left

\* the session checks of the server and the balances hook of the browser
VARIABLES
    app,              \* PRIVATE_INSTANCE, the session auth() returns, and the last call with its answer
    hook              \* the useBalances hook: its inputs, state and effects in flight

middleware == <<opAttempts, reqs, mwLast, passed>>
others == <<app, hook>>
client == <<props, ui, local, sub, lastSub, hist, page>>
limiter == <<STORAGE_TYPE, world, tasks, faults, lastOp, ghosts, twins>>
rest == <<middleware, client, others>>
vars == <<now, ticks, limiter, rest>>

\* the module-level state as one value, for the operators below
World ==
    [STORAGE_TYPE |-> STORAGE_TYPE,
     storage |-> storage, databaseStorage |-> databaseStorage,
     memoryStorage |-> memoryStorage, memInst |-> memInst, dbInst |-> dbInst,
     heap |-> heap, table |-> table]

-----------------------------------------------------------------------------
(* Object heap *)

\* the object ids a task holds
TaskRefs(tks) == {tks[t].rec : t \in DOMAIN tks} \ {0}

MapRefs(w) ==
    {w.memInst[i][k] : i \in DOMAIN w.memInst, k \in AllKeys} \ {0}

\* a fresh object id
NewId(w, tks) ==
    LET used == DOMAIN w.heap \cup TaskRefs(tks)
    IN  CHOOSE n \in 1..(Cardinality(used) + 1) :
            n \notin used /\ \A m \in 1..(n - 1) : m \in used

\* the MemoryStorage instances a variable or a call still refers to
LiveInst(w, tks) ==
    {w.memoryStorage} \cup
    {x.id : x \in {s \in {w.storage} \cup {tks[t].store : t \in DOMAIN tks} :
                      s.kind = "mem"}}

\* what nothing refers to any more is dropped: the maps of unreachable
\* MemoryStorage instances, then the unreachable objects
Collect(w, tks) ==
    LET w1 == [w EXCEPT !.memInst =
                  [i \in DOMAIN w.memInst |->
                      IF i \in LiveInst(w, tks) THEN w.memInst[i] ELSE EmptyMap]]
        live == MapRefs(w1) \cup TaskRefs(tks)
    IN  [w1 EXCEPT !.heap = [id \in (DOMAIN w1.heap) \cap live |-> w1.heap[id]]]

\* attempts.set(key, {count, firstAttempt, lockedUntil}) on instance i
MapSetNew(w, tks, i, key, rec) ==
    LET id == NewId(w, tks)
    IN  [w EXCEPT !.heap = [x \in DOMAIN w.heap \cup {id} |->
                               IF x = id THEN rec ELSE w.heap[x]],
                  !.memInst[i][key] = id]

MapDeleteMut(w, i, key) == w

\* attempts.delete(key) on instance i
MapDelete(w, i, key) == [w EXCEPT !.memInst[i][key] = 0]

\* the record instance i holds for key, NoRec if none
MapGet(w, i, key) ==
    IF w.memInst[i][key] = 0 THEN NoRec ELSE w.heap[w.memInst[i][key]]

-----------------------------------------------------------------------------
(* MemoryStorage.cleanup *)

CleanupExpiredMut(rec, tnow) ==
    \/ rec.lockedUntil = 0 /\ tnow - rec.firstAttempt > WINDOW_MS
    \/ rec.lockedUntil # 0 /\ tnow >= rec.lockedUntil

CleanupAnyLockMut(rec, tnow) ==
    \/ rec.lockedUntil = 0 /\ tnow - rec.firstAttempt > WINDOW_MS
    \/ rec.lockedUntil # 0

CleanupExpired(rec, tnow) ==
    \/ rec.lockedUntil = 0 /\ tnow - rec.firstAttempt > WINDOW_MS
    \/ rec.lockedUntil # 0 /\ tnow > rec.lockedUntil

MemoryCleanup(w, i, tnow) ==
    [w EXCEPT !.memInst[i] =
        [k \in AllKeys |->
            IF /\ w.memInst[i][k] # 0
               /\ CleanupExpired(w.heap[w.memInst[i][k]], tnow)
            THEN 0 ELSE w.memInst[i][k]]]

-----------------------------------------------------------------------------
(* Storage factory, synchronous access *)

\* getStorageSync: the store it returns and the module state it leaves
getStorageSync(w) ==
    IF w.storage.kind # "null" THEN [w |-> w, store |-> w.storage]
    ELSE IF w.memoryStorage = 0
    THEN [w |-> [w EXCEPT !.memInst = Append(w.memInst, EmptyMap),
                          !.memoryStorage = Len(w.memInst) + 1],
          store |-> MemStore(Len(w.memInst) + 1)]
    ELSE [w |-> w, store |-> MemStore(w.memoryStorage)]

-----------------------------------------------------------------------------
(* Public API, synchronous *)

CheckLockedMut(rec, tnow) == rec.lockedUntil # 0 /\ tnow <= rec.lockedUntil

\* record.lockedUntil && now < record.lockedUntil
CheckLocked(rec, tnow) == rec.lockedUntil # 0 /\ tnow < rec.lockedUntil

WindowExpiredMut(rec, tnow) == tnow - rec.firstAttempt >= WINDOW_MS

\* now - record.firstAttempt > WINDOW_MS
WindowExpired(rec, tnow) == tnow - rec.firstAttempt > WINDOW_MS

checkRateLimitSync(w, store, key, tnow) ==
    IF store.kind # "mem" THEN [w |-> w, res |-> NotLimitedFull]
    ELSE
    LET id == w.memInst[store.id][key]
        record == w.heap[id]
    IN  IF id = 0 THEN [w |-> w, res |-> NotLimitedFull]
        ELSE IF CheckLocked(record, tnow)
        THEN [w |-> w,
              res |-> Result(TRUE, Ceil(record.lockedUntil - tnow, 1000), -1)]
        ELSE IF WindowExpired(record, tnow)
        THEN [w |-> MapDelete(w, store.id, key), res |-> NotLimitedFull]
        ELSE IF record.count >= MAX_ATTEMPTS
        THEN [w |-> [w EXCEPT !.heap[id].lockedUntil = tnow + LOCKOUT_MS],
              res |-> Result(TRUE, Ceil(LOCKOUT_MS, 1000), -1)]
        ELSE [w |-> w,
              res |-> Result(FALSE, -1, MAX_ATTEMPTS - record.count)]

checkRateLimit(w, email, tnow) ==
    LET g == getStorageSync(w)
    IN  checkRateLimitSync(g.w, g.store, KeyOf(email), tnow)

IncrementMut(rec, tnow) ==
    LET c == rec.count + 1
    IN  [rec EXCEPT !.count = c,
                    !.lockedUntil = IF c > MAX_ATTEMPTS THEN tnow + LOCKOUT_MS
                                    ELSE rec.lockedUntil]

\* the increment branch of recordFailedAttempt, on the object itself
Increment(rec, tnow) ==
    LET c == rec.count + 1
    IN  [rec EXCEPT !.count = c,
                    !.lockedUntil = IF c >= MAX_ATTEMPTS THEN tnow + LOCKOUT_MS
                                    ELSE rec.lockedUntil]

recordFailedAttemptMemMut(w, tks, i, key, tnow) ==
    MapSetNew(w, tks, i, key, Rec(1, tnow, 0))

\* recordFailedAttempt on the in-memory store (the branch store instanceof MemoryStorage)
recordFailedAttemptMem(w, tks, i, key, tnow) ==
    LET id == w.memInst[i][key]
    IN  IF id = 0 \/ WindowExpired(w.heap[id], tnow)
        THEN MapSetNew(w, tks, i, key, Rec(1, tnow, 0))
        ELSE [w EXCEPT !.heap[id] = Increment(w.heap[id], tnow)]

clearAttemptsMemMut(w, i, key) == w

\* clearAttempts on the in-memory store
clearAttemptsMem(w, i, key) == MapDelete(w, i, key)

-----------------------------------------------------------------------------
(* DatabaseStorage: what each query does.  q says whether the query succeeds. *)

DatabaseGetNoCatch(w, key, q) ==
    IF q THEN [ret |-> IF key \in DOMAIN w.table THEN w.table[key] ELSE NoRec,
               threw |-> FALSE]
    ELSE [ret |-> NoRec, threw |-> TRUE]

\* the SELECT of get, inside its try/catch
DatabaseGet(w, key, q) ==
    IF q THEN [ret |-> IF key \in DOMAIN w.table THEN w.table[key] ELSE NoRec,
               threw |-> FALSE]
    ELSE [ret |-> NoRec, threw |-> FALSE]

\* the upsert of set, inside its try/catch
DatabaseSet(w, key, record, q) ==
    IF q THEN [w |-> [w EXCEPT !.table[key] = record], threw |-> FALSE]
    ELSE [w |-> w, threw |-> FALSE]

\* the DELETE of delete, inside its try/catch
DatabaseDelete(w, key, q) ==
    IF q THEN [w |-> [w EXCEPT !.table[key] = NoRec], threw |-> FALSE]
    ELSE [w |-> w, threw |-> FALSE]

\* the WHERE clause of cleanup
DatabaseExpired(row, tnow) ==
    \/ row.lockedUntil # 0 /\ row.lockedUntil < tnow
    \/ row.lockedUntil = 0 /\ row.firstAttempt < tnow - WINDOW_MS

\* the DELETE of cleanup, inside its try/catch
DatabaseCleanup(w, tnow, q) ==
    IF q THEN [w |-> [w EXCEPT !.table =
                        [k \in DOMAIN w.table |->
                            IF w.table[k] # NoRec /\ DatabaseExpired(w.table[k], tnow)
                            THEN NoRec ELSE w.table[k]]],
               threw |-> FALSE]
    ELSE [w |-> w, threw |-> FALSE]

-----------------------------------------------------------------------------
(* The async API.  An async call runs from one await to the next in one    *)
(* step; TaskStep is the step of a suspended call tk.  q is the outcome of *)
(* the database query the call is waiting for, tnow the clock.             *)

Done(w, tk) == [w |-> w, tk |-> [tk EXCEPT !.pc = "done"]]

Raise(w, tk) == [w |-> w, tk |-> [tk EXCEPT !.pc = "done", !.raised = TRUE]]

\* memoryStorage = new MemoryStorage(); storage = memoryStorage
NewMemoryStorage(w) ==
    [w EXCEPT !.memInst = Append(w.memInst, EmptyMap),
              !.memoryStorage = Len(w.memInst) + 1,
              !.storage = MemStore(Len(w.memInst) + 1)]

\* databaseStorage = new DatabaseStorage()
NewDatabaseStorage(w) ==
    [w EXCEPT !.dbInst = Append(w.dbInst, "null"),
              !.databaseStorage = Len(w.dbInst) + 1]

RECURSIVE DbInvoke(_, _, _, _, _, _), Continue(_, _, _), AfterGetDb(_, _, _)

\* a DatabaseStorage method is called on instance tk.dbi: checkTableExists
\* answers from its cache or issues its probe; then the query is issued
DbInvoke(w, tk, method, key, arg, stage) ==
    LET tk1 == [tk EXCEPT !.call = method, !.ckey = key, !.arg = arg,
                          !.stage = stage]
    IN  CASE w.dbInst[tk.dbi] = "null" -> [w |-> w, tk |-> [tk1 EXCEPT !.pc = "dbProbe"]]
          [] w.dbInst[tk.dbi] = "true" -> [w |-> w, tk |-> [tk1 EXCEPT !.pc = "dbQuery"]]
          [] OTHER -> Continue(w, [tk1 EXCEPT !.getFailed = @ \/ stage = "get"], NoRec)

\* checkRateLimitAsync / recordFailedAttemptAsync after `await store.get(key)`
\* on DatabaseStorage; record is the object get built (NoRec = null)
AfterGetDb(w, tk, record) ==
    IF tk.op = "check"
    THEN IF record = NoRec
         THEN Done(w, [tk EXCEPT !.res = NotLimitedFull])
         ELSE IF CheckLocked(record, tk.tnow)
         THEN Done(w, [tk EXCEPT !.res =
                  Result(TRUE, Ceil(record.lockedUntil - tk.tnow, 1000), -1)])
         ELSE IF WindowExpired(record, tk.tnow)
         THEN DbInvoke(w, [tk EXCEPT !.res = NotLimitedFull],
                       "delete", tk.key, NoRec, "final")
         ELSE IF record.count >= MAX_ATTEMPTS
         THEN DbInvoke(w, [tk EXCEPT !.res = Result(TRUE, Ceil(LOCKOUT_MS, 1000), -1)],
                       "set", tk.key,
                       [record EXCEPT !.lockedUntil = tk.tnow + LOCKOUT_MS], "final")
         ELSE Done(w, [tk EXCEPT !.res =
                  Result(FALSE, -1, MAX_ATTEMPTS - record.count)])
    ELSE \* "record"
         IF record = NoRec \/ WindowExpired(record, tk.tnow)
         THEN DbInvoke(w, tk, "set", tk.key, Rec(1, tk.tnow, 0), "final")
         ELSE DbInvoke(w, tk, "set", tk.key, Increment(record, tk.tnow), "final")

\* the caller of a DatabaseStorage method resumes with what it returned
Continue(w, tk, ret) ==
    CASE tk.stage = "storageTest" ->
            \* getStorage: testRecord !== null || (await checkDatabaseAvailable())
            IF ret # NoRec
            THEN [w |-> [w EXCEPT !.storage = DbStore(w.databaseStorage)],
                  tk |-> [tk EXCEPT !.store = DbStore(w.databaseStorage),
                                    !.pc = "afterStorage"]]
            ELSE [w |-> w, tk |-> [tk EXCEPT !.pc = "probeAvail"]]
      [] tk.stage = "get" -> AfterGetDb(w, [tk EXCEPT !.val = ret], ret)
      [] OTHER -> Done(w, tk)

\* getStorage, up to its first await
getStorage(w, tk) ==
    IF w.storage.kind # "null"
    THEN [w |-> w, tk |-> [tk EXCEPT !.store = w.storage, !.pc = "afterStorage"]]
    ELSE IF w.STORAGE_TYPE = "database"
    THEN LET w1 == NewDatabaseStorage(w)
         IN  [w |-> [w1 EXCEPT !.storage = DbStore(w1.databaseStorage)],
              tk |-> [tk EXCEPT !.store = DbStore(w1.databaseStorage),
                                !.pc = "afterStorage"]]
    ELSE IF w.STORAGE_TYPE = "auto"
    THEN LET w1 == NewDatabaseStorage(w)
         IN  DbInvoke(w1, [tk EXCEPT !.dbi = w1.databaseStorage],
                      "get", TestKey, NoRec, "storageTest")
    ELSE LET w1 == NewMemoryStorage(w)
         IN  [w |-> w1, tk |-> [tk EXCEPT !.store = w1.storage, !.pc = "afterStorage"]]

\* getStorage in 'auto' mode after `await checkDatabaseAvailable()`
getStorageFallback(w, q) ==
    IF q THEN [w EXCEPT !.storage = DbStore(w.databaseStorage)]
    ELSE NewMemoryStorage(w)

\* a call of checkRateLimitAsync / recordFailedAttemptAsync / clearAttemptsAsync
StartCall(w, op, email, detached) ==
    getStorage(w, [IdleTask EXCEPT !.op = op, !.email = email,
                                   !.detached = detached])

\* after `await getStorage()`: key, now, and the call of store.get / store.delete
AfterStorage(w, tk0, tnow) ==
    LET tk == [tk0 EXCEPT !.key = KeyOf(tk0.email), !.tnow = tnow,
                          !.dbi = IF tk0.store.kind = "db" THEN tk0.store.id ELSE tk0.dbi]
    IN  IF tk.store.kind = "mem"
        THEN IF tk.op = "clear"
             THEN Done(MapDelete(w, tk.store.id, tk.key), tk)
             ELSE [w |-> w,
                   tk |-> [tk EXCEPT !.rec = w.memInst[tk.store.id][tk.key],
                                     !.pc = "afterGet"]]
        ELSE IF tk.op = "clear"
             THEN DbInvoke(w, tk, "delete", tk.key, NoRec, "final")
             ELSE DbInvoke(w, tk, "get", tk.key, NoRec, "get")

\* checkRateLimitAsync / recordFailedAttemptAsync after `await store.get(key)`
\* on MemoryStorage; tk.rec is the object the map held (0 = null)
AfterGetMem(w, tks, tk) ==
    LET i == tk.store.id
        id == tk.rec
        record == w.heap[id]
    IN  IF tk.op = "check"
        THEN IF id = 0
             THEN Done(w, [tk EXCEPT !.res = NotLimitedFull])
             ELSE IF CheckLocked(record, tk.tnow)
             THEN Done(w, [tk EXCEPT !.rec = 0, !.res =
                      Result(TRUE, Ceil(record.lockedUntil - tk.tnow, 1000), -1)])
             ELSE IF WindowExpired(record, tk.tnow)
             THEN Done(MapDelete(w, i, tk.key),
                       [tk EXCEPT !.rec = 0, !.res = NotLimitedFull])
             ELSE IF record.count >= MAX_ATTEMPTS
             THEN Done([w EXCEPT !.heap[id].lockedUntil = tk.tnow + LOCKOUT_MS,
                                 !.memInst[i][tk.key] = id],
                       [tk EXCEPT !.rec = 0,
                                  !.res = Result(TRUE, Ceil(LOCKOUT_MS, 1000), -1)])
             ELSE Done(w, [tk EXCEPT !.rec = 0, !.res =
                      Result(FALSE, -1, MAX_ATTEMPTS - record.count)])
        ELSE \* "record"
             IF id = 0 \/ WindowExpired(record, tk.tnow)
             THEN Done(MapSetNew(w, tks, i, tk.key, Rec(1, tk.tnow, 0)),
                       [tk EXCEPT !.rec = 0])
             ELSE Done([w EXCEPT !.heap[id] = Increment(record, tk.tnow),
                                 !.memInst[i][tk.key] = id],
                       [tk EXCEPT !.rec = 0])

\* the pending query of a DatabaseStorage method completes
DbQuery(w, tk, q) ==
    LET tk1 == [tk EXCEPT !.qfail = tk.qfail \/ ~q,
                          !.getFailed = tk.getFailed \/ (tk.stage = "get" /\ ~q),
                          !.delFailed = tk.delFailed \/
                                        (tk.op = "clear" /\ tk.call = "delete" /\ ~q)]
    IN  CASE tk.call = "get" ->
                LET r == DatabaseGet(w, tk.ckey, q)
                IN  IF r.threw THEN Raise(w, tk1) ELSE Continue(w, tk1, r.ret)
          [] tk.call = "set" ->
                LET r == DatabaseSet(w, tk.ckey, tk.arg, q)
                IN  IF r.threw THEN Raise(w, tk1) ELSE Continue(r.w, tk1, NoRec)
          [] OTHER ->
                LET r == DatabaseDelete(w, tk.ckey, q)
                IN  IF r.threw THEN Raise(w, tk1) ELSE Continue(r.w, tk1, NoRec)

\* the probe of checkTableExists completes
DbProbe(w, tk, q) ==
    LET w1 == [w EXCEPT !.dbInst[tk.dbi] = IF q THEN "true" ELSE "false"]
        tk1 == [tk EXCEPT !.qfail = tk.qfail \/ ~q,
                          !.getFailed = tk.getFailed \/ (tk.stage = "get" /\ ~q)]
    IN  IF q THEN [w |-> w1, tk |-> [tk1 EXCEPT !.pc = "dbQuery"]]
        ELSE Continue(w1, tk1, NoRec)

TaskStep(w, tks, t, q, tnow) ==
    LET tk == tks[t]
    IN  CASE tk.pc = "afterStorage" -> AfterStorage(w, tk, tnow)
          [] tk.pc = "afterGet" -> AfterGetMem(w, tks, tk)
          [] tk.pc = "dbProbe" -> DbProbe(w, tk, q)
          [] tk.pc = "dbQuery" -> DbQuery(w, tk, q)
          [] tk.pc = "probeAvail" ->
                LET w1 == getStorageFallback(w, q)
                IN  [w |-> w1,
                     tk |-> [tk EXCEPT !.store = w1.storage, !.pc = "afterStorage",
                                       !.qfail = tk.qfail \/ ~q]]
          [] OTHER -> [w |-> w, tk |-> tk]

\* a call awaited to its end with nothing in between: every query has
\* outcome q, the clock reads tnow
RECURSIVE RunTask(_, _, _, _, _, _)
RunTask(w, tks, t, q, tnow, fuel) ==
    IF tks[t].pc \in {"done", "idle"} \/ fuel = 0 THEN [w |-> w, tk |-> tks[t]]
    ELSE LET r == TaskStep(w, tks, t, q, tnow)
         IN  RunTask(r.w, [tks EXCEPT ![t] = r.tk], t, q, tnow, fuel - 1)

\* an async call made in module state w and awaited at once
RunCall(w, op, email, q, tnow) ==
    LET s == StartCall(w, op, email, FALSE)
        r == RunTask(s.w, [NoTasks EXCEPT !["t1"] = s.tk], "t1", q, tnow, MaxAwaits)
    IN  [w |-> Collect(r.w, NoTasks), res |-> r.tk.res, raised |-> r.tk.raised]

-----------------------------------------------------------------------------
(* Public API, synchronous: the calls *)

recordFailedAttempt(w, tks, email, tnow) ==
    LET g == getStorageSync(w)
    IN  IF g.store.kind = "mem"
        THEN [w |-> recordFailedAttemptMem(g.w, tks, g.store.id, KeyOf(email), tnow),
              spawn |-> FALSE]
        ELSE [w |-> g.w, spawn |-> TRUE]   \* recordFailedAttemptAsync(email).catch(...)

clearAttempts(w, email) ==
    LET g == getStorageSync(w)
    IN  IF g.store.kind = "mem"
        THEN [w |-> clearAttemptsMem(g.w, g.store.id, KeyOf(email)), spawn |-> FALSE]
        ELSE [w |-> g.w, spawn |-> TRUE]   \* clearAttemptsAsync(email).catch(...)

-----------------------------------------------------------------------------
(* The rate-limit middleware (trpc/init.ts, createRateLimitMiddleware) and  *)
(* the per-operation limiter it calls.  The limiter's two functions are not *)
(* part of the sources at hand: they follow the LockoutGuard transitions of *)
(* the design (checkStatus, recordFailure) with the policy handed in.       *)

\* permanentDelete.procedure.ts: createRateLimitedProcedure('permanent-delete', 5, HOUR_MS)
HOUR_MS == 3600000
PERMANENT_DELETE_MAX == 5

Operations == {"permanent-delete"}
GroupIds == {"g1", "g2"}

\* input.groupId / rawInput.groupId of a request; "" stands for every falsy value
GroupInputs == GroupIds \cup {""}

Reqs == {"r1", "r2"}

\* the arguments createRateLimitedProcedure is given for an operation
Policy(operation) == [maxAttempts |-> PERMANENT_DELETE_MAX, windowMs |-> HOUR_MS]

\* `${operation}:${inputData.groupId}`
OpKey(operation, groupId) == <<operation, ":", groupId>>

OpKeys == {OpKey(o, g) : o \in Operations, g \in GroupIds}

\* the lockout of the per-operation policy: the limiter is handed no
\* separate duration, the window is used
OperationLockout(windowMs) == windowMs

\* checkStatus with the policy (maxAttempts, windowMs)
checkOperationRateLimit(store, key, maxAttempts, windowMs, tnow) ==
    LET rec == store[key]
    IN  IF rec = NoRec
        THEN [store |-> store, res |-> Result(FALSE, -1, maxAttempts)]
        ELSE IF rec.lockedUntil # 0 /\ tnow < rec.lockedUntil
        THEN [store |-> store,
              res |-> Result(TRUE, Ceil(rec.lockedUntil - tnow, 1000), -1)]
        ELSE IF tnow - rec.firstAttempt > windowMs
        THEN [store |-> [store EXCEPT ![key] = NoRec],
              res |-> Result(FALSE, -1, maxAttempts)]
        ELSE [store |-> store, res |-> Result(FALSE, -1, maxAttempts - rec.count)]

\* recordFailure with the policy (maxAttempts, windowMs)
recordOperationAttempt(store, key, maxAttempts, windowMs, tnow) ==
    LET rec == store[key]
        c == rec.count + 1
    IN  IF rec = NoRec \/ tnow - rec.firstAttempt > windowMs
        THEN [store EXCEPT ![key] = Rec(1, tnow, 0)]
        ELSE [store EXCEPT ![key] =
                 [rec EXCEPT !.count = c,
                             !.lockedUntil = IF c >= maxAttempts
                                             THEN tnow + OperationLockout(windowMs)
                                             ELSE rec.lockedUntil]]

\* a request in the middleware
NoReq ==
    [pc |-> "idle",          \* "idle", "rawInput" (await getRawInput()), "next" (in next())
     operation |-> "none",
     raw |-> "",             \* the groupId of its raw input
     groupId |-> "",         \* inputData.groupId
     limited |-> FALSE,      \* what checkOperationRateLimit reported
     checks |-> 0,           \* calls of checkOperationRateLimit
     records |-> 0,          \* calls of recordOperationAttempt
     recordedFirst |-> FALSE,\* the record was made before next() was invoked
     nexts |-> 0,            \* invocations of next()
     code |-> "none",        \* the code of the TRPCError thrown
     retry |-> -1,           \* the seconds its message carries
     untouched |-> TRUE]     \* the request left the limiter's records as they were

NoRequests == [r \in Reqs |-> NoReq]

RecordBeforeNextMut(store, key, maxAttempts, windowMs, tnow) == store

\* line 167: recordOperationAttempt(key, maxAttempts, windowMs)
RecordBeforeNext(store, key, maxAttempts, windowMs, tnow) ==
    recordOperationAttempt(store, key, maxAttempts, windowMs, tnow)

\* the middleware from `if (!inputData?.groupId) return next()` on: it runs
\* to the throw or into next() without suspending
rateLimitMiddleware(store, rq, tnow) ==
    IF rq.groupId = ""
    THEN [store |-> store, rq |-> [rq EXCEPT !.pc = "next", !.nexts = @ + 1]]
    ELSE
    LET pol == Policy(rq.operation)
        key == OpKey(rq.operation, rq.groupId)
        c == checkOperationRateLimit(store, key, pol.maxAttempts, pol.windowMs, tnow)
        rq1 == [rq EXCEPT !.checks = @ + 1, !.limited = c.res.isLimited]
    IN  IF c.res.isLimited
        THEN [store |-> c.store,
              rq |-> [rq1 EXCEPT !.pc = "idle", !.code = "TOO_MANY_REQUESTS",
                                 !.retry = c.res.retryAfter,
                                 !.untouched = c.store = store]]
        ELSE LET s2 == RecordBeforeNext(c.store, key, pol.maxAttempts, pol.windowMs, tnow)
             IN  [store |-> s2,
                  rq |-> [rq1 EXCEPT !.pc = "next", !.nexts = @ + 1,
                                     !.records = IF s2 = c.store THEN @ ELSE @ + 1,
                                     !.recordedFirst = s2 # c.store,
                                     !.untouched = FALSE]]

\* the middleware from its start: input is the parsed input when the
\* middleware was attached after .input(), undefined otherwise
StartRequest(store, operation, raw, parsed, tnow) ==
    LET rq == [NoReq EXCEPT !.operation = operation, !.raw = raw,
                            !.groupId = IF parsed THEN raw ELSE ""]
    IN  IF rq.groupId = ""
        THEN [store |-> store, rq |-> [rq EXCEPT !.pc = "rawInput"]]
        ELSE rateLimitMiddleware(store, rq, tnow)

-----------------------------------------------------------------------------
(* The session checks: publicProcedure and adminProcedure (trpc/init.ts),   *)
(* their mirrors of the test file, and the upload route.  isPrivateInstance *)
(* and auth of '@/lib/auth' are not part of the sources at hand:            *)
(* isPrivateInstance() is the PRIVATE_INSTANCE setting of the process, and  *)
(* auth() returns the session of the request or null.                       *)

NoSession == [kind |-> "null", isAdmin |-> FALSE, mustChangePassword |-> FALSE,
              requiresTwoFactor |-> FALSE]

\* what auth() returns: null, a session without user, or a session with a user
Sessions ==
    {NoSession, [NoSession EXCEPT !.kind = "nouser"]}
    \cup [kind : {"user"}, isAdmin : BOOLEAN, mustChangePassword : BOOLEAN,
          requiresTwoFactor : BOOLEAN]

\* !session?.user
HasUser(session) == session.kind = "user"

\* const session = isPrivateInstance() ? await auth() : null
createTRPCContext(private, session) == IF private THEN session ELSE NoSession

\* return next({ ctx })
Passes == [code |-> "next", message |-> ""]

\* throw new TRPCError({ code, message })
TRPCError(code, message) == [code |-> code, message |-> message]

publicProcedureMut(private, session) ==
    IF private
    THEN IF ~HasUser(session)
         THEN TRPCError("UNAUTHORIZED", "Authentication required")
         ELSE IF session.mustChangePassword
         THEN TRPCError("FORBIDDEN", "Password change required")
         ELSE IF session.requiresTwoFactor
         THEN TRPCError("UNAUTHORIZED", "Two-factor authentication required")
         ELSE Passes
    ELSE Passes

\* publicProcedure, on ctx.session
publicProcedure(private, session) ==
    IF private
    THEN IF ~HasUser(session)
         THEN TRPCError("UNAUTHORIZED", "Authentication required")
         ELSE IF session.requiresTwoFactor
         THEN TRPCError("UNAUTHORIZED", "Two-factor authentication required")
         ELSE IF session.mustChangePassword
         THEN TRPCError("FORBIDDEN", "Password change required")
         ELSE Passes
    ELSE Passes

\* checkPublicProcedure of the test file; returning is written Passes
checkPublicProcedure(isPrivateInstance, session) ==
    IF isPrivateInstance
    THEN IF ~HasUser(session)
         THEN TRPCError("UNAUTHORIZED", "Authentication required")
         ELSE IF session.requiresTwoFactor
         THEN TRPCError("UNAUTHORIZED", "Two-factor authentication required")
         ELSE IF session.mustChangePassword
         THEN TRPCError("FORBIDDEN", "Password change required")
         ELSE Passes
    ELSE Passes

adminProcedureMut(private, session) ==
    IF ~private
    THEN TRPCError("NOT_FOUND", "Admin features are only available in private instance mode")
    ELSE IF ~HasUser(session)
    THEN TRPCError("UNAUTHORIZED", "Authentication required")
    ELSE IF ~session.isAdmin
    THEN TRPCError("FORBIDDEN", "Admin access required")
    ELSE Passes

\* adminProcedure, on ctx.session
adminProcedure(private, session) ==
    IF ~private
    THEN TRPCError("NOT_FOUND", "Admin features are only available in private instance mode")
    ELSE IF ~HasUser(session)
    THEN TRPCError("UNAUTHORIZED", "Authentication required")
    ELSE IF session.requiresTwoFactor
    THEN TRPCError("UNAUTHORIZED", "Two-factor authentication required")
    ELSE IF session.mustChangePassword
    THEN TRPCError("FORBIDDEN", "Password change required")
    ELSE IF ~session.isAdmin
    THEN TRPCError("FORBIDDEN", "Admin access required")
    ELSE Passes

\* checkAdminProcedure of the test file
checkAdminProcedure(isPrivateInstance, session) ==
    IF ~isPrivateInstance
    THEN TRPCError("NOT_FOUND", "Admin features are only available in private instance mode")
    ELSE IF ~HasUser(session)
    THEN TRPCError("UNAUTHORIZED", "Authentication required")
    ELSE IF session.requiresTwoFactor
    THEN TRPCError("UNAUTHORIZED", "Two-factor authentication required")
    ELSE IF session.mustChangePassword
    THEN TRPCError("FORBIDDEN", "Password change required")
    ELSE IF ~session.isAdmin
    THEN TRPCError("FORBIDDEN", "Admin access required")
    ELSE Passes

POSTMut(private, session) == [status |-> 200, s3 |-> TRUE]

\* POST of the upload route: the status it answers itself, or the request
\* handed to s3Handler (whose answer is written 200)
POST(private, session) ==
    IF private /\ ~HasUser(session)
    THEN [status |-> 401, s3 |-> FALSE]
    ELSE [status |-> 200, s3 |-> TRUE]

-----------------------------------------------------------------------------
(* The decrypting components: the balances hook (useBalances) and the       *)
(* expense form (EditExpenseForm), which decrypts its one expense the same  *)
(* way.  useEncryption, the queries, decryptExpenses / decryptExpense and    *)
(* the functions of '@/lib/balances' are not part of the sources at hand:   *)
(* the first two are inputs that change at any time, the decryption         *)
(* resolves to the plain data when the key is the group's and every         *)
(* ciphertext is well-formed and rejects otherwise, and balances are a      *)
(* function of the expenses they are given.                                 *)

Components == {"useBalances", "EditExpenseForm"}

\* the fetched data (expensesData?.expenses, or expenseData?.expense):
\* undefined, a list A of encrypted expenses, the list A2 with the same ids
\* and other contents (a refetch after an edit), a list B with other ids
\* that holds a malformed ciphertext
RawExpenses == {"undefined", "A", "A2", "B"}

\* encryptionKey: null, the key of the group, another key
EncryptionKeys == {"null", "k1", "k2"}

\* rawExpenses?.map((e) => e.id).join(',') || '' (expense?.id in the form)
ExpenseIds(raw) ==
    CASE raw = "undefined" -> ""
      [] raw = "A2" -> "A"
      [] OTHER -> raw

\* decryptExpenses(rawExpenses, encryptionKey)
decryptExpenses(raw, key) == [threw |-> ~(raw \in {"A", "A2"} /\ key = "k1")]

\* the inputs of a render
HookInputs ==
    [raw : RawExpenses, key : EncryptionKeys, isKeyLoading : BOOLEAN, hasKey : BOOLEAN]

\* hasKey && encryptionKey !== null
ShouldDecryptWithKey(in) == in.hasKey /\ in.key # "null"

\* decryptedExpenses: undefined, the raw expenses as fetched ("raw"), their
\* decryption ("plain") or [] ("empty"); of says of which list
Undefined == [kind |-> "undefined", of |-> "undefined"]

NoRef == [set |-> FALSE, key |-> "", withKey |-> FALSE]

NoRun == [pending |-> FALSE, raw |-> "undefined", key |-> "null"]

NoHook ==
    [who |-> "useBalances",           \* the component
     mounted |-> TRUE,
     in |-> [raw |-> "undefined", key |-> "null", isKeyLoading |-> TRUE, hasKey |-> FALSE],
     decryptedExpenses |-> Undefined,
     decryptionError |-> FALSE,        \* an Error, or null
     lastDecryptedRef |-> NoRef,
     run |-> NoRun,                    \* the decrypt() whose isMounted is still true, at its await
     old |-> NoRun,                    \* the latest decrypt() whose effect was cleaned up (isMounted
                                       \* false) at its await; an earlier one is not followed
     staleWrote |-> FALSE,             \* the last cleaned-up decrypt() changed the state when it ended
     done |-> "none"]                  \* how the last decrypt() ended: "skipped", "undefined", "raw",
                                       \* "waiting", "ok", "failed", "stale", "unmounted"

\* lastDecryptedRef.current = { key: expenseIds, withKey }
RefOf(raw, withKey) == [set |-> TRUE, key |-> ExpenseIds(raw), withKey |-> withKey]

decryptFailedMut(h, r) ==
    [h EXCEPT !.decryptedExpenses = [kind |-> "raw", of |-> r.raw],
              !.decryptionError = TRUE,
              !.lastDecryptedRef = RefOf(r.raw, TRUE)]

\* the catch of decrypt(), isMounted being true: useBalances (storage.ts,
\* lines 167-181) sets [] and the error, the form sets the expense as fetched
decryptFailed(h, r) ==
    IF h.who = "useBalances"
    THEN [h EXCEPT !.decryptedExpenses = [kind |-> "empty", of |-> r.raw],
                   !.decryptionError = TRUE,
                   !.lastDecryptedRef = RefOf(r.raw, TRUE)]
    ELSE [h EXCEPT !.decryptedExpenses = [kind |-> "raw", of |-> r.raw],
                   !.lastDecryptedRef = RefOf(r.raw, TRUE)]

\* the effect of a render with inputs in (lines 125-189): the cleanup of
\* the effect before it, then decrypt() up to its await or its end
useBalancesEffect(h, in) ==
    LET h0 == [h EXCEPT !.in = in, !.run = NoRun,
                        !.old = IF h.run.pending THEN h.run ELSE h.old]
    IN  IF /\ h.lastDecryptedRef.set
           /\ h.lastDecryptedRef.key = ExpenseIds(in.raw)
           /\ h.lastDecryptedRef.withKey = ShouldDecryptWithKey(in)
        THEN [h0 EXCEPT !.done = "skipped"]
        ELSE IF in.raw = "undefined"
        THEN [h0 EXCEPT !.decryptedExpenses = Undefined, !.decryptionError = FALSE,
                        !.done = "undefined"]
        ELSE IF ~in.isKeyLoading /\ ~in.hasKey
        THEN [h0 EXCEPT !.decryptedExpenses = [kind |-> "raw", of |-> in.raw],
                        !.decryptionError = FALSE,
                        !.lastDecryptedRef = RefOf(in.raw, FALSE),
                        !.done = "raw"]
        ELSE IF in.key = "null"
        THEN [h0 EXCEPT !.done = "waiting"]
        ELSE [h0 EXCEPT !.run = [pending |-> TRUE, raw |-> in.raw, key |-> in.key],
                        !.done = "waiting"]

useBalancesSettledMut(h, r, isMounted) ==
    IF decryptExpenses(r.raw, r.key).threw
    THEN decryptFailed(h, r)
    ELSE [h EXCEPT !.decryptedExpenses = [kind |-> "plain", of |-> r.raw],
                   !.decryptionError = FALSE,
                   !.lastDecryptedRef = RefOf(r.raw, TRUE)]

\* decrypt() r after its await (lines 160-181): what it leaves, isMounted
\* being the flag of its effect
useBalancesSettled(h, r, isMounted) ==
    IF ~isMounted THEN h
    ELSE IF decryptExpenses(r.raw, r.key).threw
    THEN decryptFailed(h, r)
    ELSE [h EXCEPT !.decryptedExpenses = [kind |-> "plain", of |-> r.raw],
                   !.decryptionError = FALSE,
                   !.lastDecryptedRef = RefOf(r.raw, TRUE)]

\* the state a decrypt() may write
Written(h) == <<h.decryptedExpenses, h.decryptionError, h.lastDecryptedRef>>

\* the useMemo of the hook (lines 192-207): what balances and reimbursements
\* were computed from, "nothing" standing for {} and []
BalancesFrom(h) ==
    IF h.decryptedExpenses.kind \in {"undefined", "empty"} THEN "nothing"
    ELSE h.decryptedExpenses.kind

\* what the hook returns (lines 209-218)
useBalances(h) ==
    [balances |-> BalancesFrom(h), reimbursements |-> BalancesFrom(h),
     isLoading |-> h.in.isKeyLoading \/ h.in.raw = "undefined"
                   \/ h.decryptedExpenses.kind = "undefined",
     expenses |-> h.decryptedExpenses,
     decryptionError |-> h.decryptionError]

NoCalled == [proc |-> "none", private |-> FALSE, session |-> NoSession, ctx |-> NoSession,
             res |-> Passes, mirror |-> Passes, public |-> Passes,
             status |-> 0, s3 |-> FALSE]

InitApp(privates) ==
    app \in [private : privates, session : {NoSession}, last : {NoCalled}]

InitTrpc ==
    /\ opAttempts = [k \in OpKeys |-> NoRec]
    /\ reqs = NoRequests
    /\ mwLast = NoReq
    /\ passed = [k \in OpKeys |-> 0]

InitMiddleware ==
    /\ InitTrpc
    /\ InitApp({FALSE})
    /\ hook = NoHook


-----------------------------------------------------------------------------
(* The password prompt (PasswordPrompt).  The functions of '@/lib/crypto'   *)
(* are not part of the sources at hand: they follow the contracts of the   *)
(* design (KeyDeriver, UnlockVerifier).  A key is known by its length, the *)
(* password it was derived from and whether the URL key went into it.      *)

RATE_LIMIT_ATTEMPTS == 5
RATE_LIMIT_WINDOW_MS == 60000
LOCKOUT_DURATION_MS == 300000

\* const keyLengthBytes = urlKey ? urlKey.length : 32
DEFAULT_KEY_BYTES == 32

KeyLengths == {16, DEFAULT_KEY_BYTES}

\* what the user types; "" stands for every text that trims to nothing
Passwords == {"", "good", "bad"}

NoKey == [len |-> 0, pw |-> "", url |-> FALSE]

\* the urlKey prop: null (len 0) or the key of the share link
UrlKey(len) == [len |-> len, pw |-> "", url |-> TRUE]

\* base64ToKey(passwordSalt)
base64ToKey(saltOk) == [threw |-> ~saltOk]

\* derive(password, salt, keyLengthBytes: {16|32}), deterministic
deriveKeyFromPassword(password, keyLengthBytes, resolves) ==
    IF resolves /\ keyLengthBytes \in KeyLengths
    THEN [threw |-> FALSE, key |-> [len |-> keyLengthBytes, pw |-> password, url |-> FALSE]]
    ELSE [threw |-> TRUE, key |-> NoKey]

\* combine(a, b), defined only when len(a) = len(b): LengthMismatch otherwise
combineKeys(a, b) ==
    IF a.len # b.len THEN [threw |-> TRUE, key |-> NoKey]
    ELSE [threw |-> FALSE, key |-> [len |-> a.len, pw |-> b.pw, url |-> TRUE]]

\* the key the group's data was encrypted with
GroupKey(p) ==
    IF p.urlKeyLen = 0
    THEN deriveKeyFromPassword("good", DEFAULT_KEY_BYTES, TRUE).key
    ELSE combineKeys(UrlKey(p.urlKeyLen),
                     deriveKeyFromPassword("good", p.urlKeyLen, TRUE).key).key

\* decrypt(encryptedGroupName, finalKey): rejects on a wrong key and on a
\* malformed ciphertext
decrypt(probe, key, groupKey) == [threw |-> ~(probe = "valid" /\ key = groupKey)]

\* keyToBase64(key)
keyToBase64(key) == <<"base64", key.len, key.pw, key.url>>

\* attempts.filter((time) => now - time < RATE_LIMIT_WINDOW_MS)
Recent(attempts, tnow) ==
    SelectSeq(attempts, LAMBDA time : tnow - time < RATE_LIMIT_WINDOW_MS)

isRateLimitedMut(u, tnow) ==
    [limited |-> u.lockedUntil # 0 /\ tnow < u.lockedUntil,
     attempts |-> u.attempts, set |-> FALSE]

\* isRateLimited(): what it returns, what setAttempts leaves, and whether
\* setAttempts was called
isRateLimited(u, tnow) ==
    IF u.lockedUntil # 0 /\ tnow < u.lockedUntil
    THEN [limited |-> TRUE, attempts |-> u.attempts, set |-> FALSE]
    ELSE [limited |-> Len(Recent(u.attempts, tnow)) >= RATE_LIMIT_ATTEMPTS,
          attempts |-> Recent(u.attempts, tnow), set |-> TRUE]

\* remainingLockoutTime, as computed by the render at time t
remainingLockoutTime(lockedUntil, t) ==
    IF lockedUntil # 0
    THEN (IF lockedUntil - t > 0 THEN Ceil(lockedUntil - t, 1000) ELSE 0)
    ELSE 0

DisabledMut(u) == u.remaining

\* disabled={isLoading || remainingLockoutTime > 0}, as last rendered
\* (u.remaining: the render found remainingLockoutTime > 0)
Disabled(u) == u.isLoading \/ u.remaining

NoStored == [attempts |-> <<>>, lockedUntil |-> -1]

\* what localStorage holds under a key: nothing (getItem returns null), the
\* text JSON.stringify made of a RateLimitState, a text JSON.parse rejects,
\* or the JSON text of some other value ({} or 5, say)
TextKinds == {"null", "state", "malformed", "other"}

NoText == [kind |-> "null", attempts |-> <<>>, lockedUntil |-> 0]

\* JSON.stringify({attempts, lockedUntil}); null is written 0 here
JSONstringify(state) ==
    [kind |-> "state", attempts |-> state.attempts, lockedUntil |-> state.lockedUntil]

\* JSON.parse(text) of a non-empty text
JSONparse(text) ==
    [threw |-> text.kind = "malformed",
     value |-> [isState |-> text.kind = "state", attempts |-> text.attempts,
                lockedUntil |-> text.lockedUntil]]

\* the RateLimitState a stored text stands for, where it stands for one
StoredState(text) ==
    IF text.kind = "state"
    THEN [attempts |-> text.attempts, lockedUntil |-> text.lockedUntil]
    ELSE NoStored

\* loadRateLimitState(groupId); reads says whether localStorage.getItem returns
loadRateLimitState(l, groupId, reads) ==
    LET stored == l.lockout[groupId]
    IN  IF ~reads \/ stored.kind = "null" \/ JSONparse(stored).threw
        THEN [null |-> TRUE, value |-> JSONparse(NoText).value]
        ELSE [null |-> FALSE, value |-> JSONparse(stored).value]

\* saveRateLimitState(groupId, {attempts, lockedUntil}) of the persist effect;
\* works says whether localStorage.setItem returns
saveRateLimitState(l, groupId, u, works) ==
    IF works
    THEN [l EXCEPT !.lockout[groupId] =
             JSONstringify([attempts |-> u.attempts, lockedUntil |-> u.lockedUntil])]
    ELSE l

\* a handleSubmit: its closure (password and props of the render it was
\* created in), its locals, and what it has called so far
NoSub ==
    [pc |-> "idle",            \* "idle", "derive" (await deriveKeyFromPassword), "decrypt" (await decrypt)
     password |-> "", urlKeyLen |-> 0, probe |-> "none",
     passwordKey |-> NoKey, finalKey |-> NoKey,
     derives |-> 0, deriveLen |-> 0, combines |-> 0, mismatch |-> FALSE,
     decrypts |-> 0, appended |-> 0, successes |-> 0, key |-> NoKey,
     outcome |-> "none",       \* "empty", "limited", "ok", "failed"
     cause |-> "none",         \* of a failure: "salt", "derive", "combine", "decrypt", "session"
     priorWrong |-> 0,         \* failures in a row inside the window when it was submitted
     afterLock |-> FALSE,      \* it was submitted after a lockout had passed
     left |-> [attempts |-> <<>>, lockedUntil |-> 0, password |-> "", error |-> "none",
               isLoading |-> FALSE, stored |-> NoStored]]

\* the state of the prompt as one value
Client == [props |-> props, ui |-> ui, local |-> local, sub |-> sub]

\* the render that follows a state change, with the persist effect, which
\* runs when attempts (u.fresh: it was set to a new array) or lockedUntil changed
Render(c, u, s, tnow, works) ==
    [c EXCEPT !.ui = [u EXCEPT !.remaining = remainingLockoutTime(u.lockedUntil, tnow) > 0,
                               !.fresh = FALSE],
              !.local = IF u.fresh \/ u.lockedUntil # c.ui.lockedUntil
                        THEN saveRateLimitState(c.local, c.props.groupId, u, works)
                        ELSE c.local,
              !.sub = s]

\* a handleSubmit has returned
Finish(c, u, s, outcome, cause, tnow, works) ==
    LET c1 == Render(c, u, s, tnow, works)
    IN  [c1 EXCEPT !.sub = [s EXCEPT !.pc = "idle", !.outcome = outcome, !.cause = cause,
                                     !.left = [attempts |-> c1.ui.attempts,
                                               lockedUntil |-> c1.ui.lockedUntil,
                                               password |-> c1.ui.password,
                                               error |-> c1.ui.error,
                                               isLoading |-> c1.ui.isLoading,
                                               stored |-> StoredState(c1.local.lockout[c1.props.groupId])]]]

CatchOuterMut(c, s, cause, tnow, works) ==
    Finish(c, [c.ui EXCEPT !.attempts = Append(@, tnow), !.fresh = TRUE,
                           !.error = cause, !.isLoading = FALSE],
           [s EXCEPT !.appended = @ + 1], "failed", cause, tnow, works)

\* the outer catch and finally of handleSubmit (lines 195-202)
CatchOuter(c, s, cause, tnow, works) ==
    Finish(c, [c.ui EXCEPT !.attempts = Append(@, tnow), !.fresh = TRUE,
                           !.error = "invalid", !.password = "", !.isLoading = FALSE],
           [s EXCEPT !.appended = @ + 1], "failed", cause, tnow, works)

CatchDecryptMut(c, s, tnow, works) ==
    Finish(c, [c.ui EXCEPT !.attempts = Append(@, tnow), !.fresh = TRUE,
                           !.error = "invalid", !.password = ""],
           [s EXCEPT !.appended = @ + 1], "failed", "decrypt", tnow, works)

\* the catch of the verification (lines 170-177), then finally
CatchDecrypt(c, s, tnow, works) ==
    Finish(c, [c.ui EXCEPT !.attempts = Append(@, tnow), !.fresh = TRUE,
                           !.error = "invalid", !.password = "", !.isLoading = FALSE],
           [s EXCEPT !.appended = @ + 1], "failed", "decrypt", tnow, works)

\* lines 180-194, then finally: the key is stored and handed to onSuccess;
\* localWorks / sessionWorks say whether the setItem returns
Succeed(c, s, tnow, localWorks, sessionWorks) ==
    LET l1 == IF localWorks THEN [c.local EXCEPT !.key = keyToBase64(s.finalKey)]
              ELSE c.local
    IN  IF ~sessionWorks
        THEN CatchOuter([c EXCEPT !.local = l1], s, "session", tnow, localWorks)
        ELSE Finish([c EXCEPT !.local = [l1 EXCEPT !.session = keyToBase64(s.passwordKey)]],
                    [c.ui EXCEPT !.isLoading = FALSE],
                    [s EXCEPT !.successes = @ + 1, !.key = s.finalKey],
                    "ok", "none", tnow, localWorks)

KeyLengthBytesMut(urlKeyLen) == DEFAULT_KEY_BYTES

\* const keyLengthBytes = urlKey ? urlKey.length : 32
KeyLengthBytes(urlKeyLen) == IF urlKeyLen # 0 THEN urlKeyLen ELSE DEFAULT_KEY_BYTES

\* handleSubmit up to `await deriveKeyFromPassword(...)`; h is the history
\* of the prompt, f the behaviour of the environment
SubmitStart(c, h, tnow, f) ==
    LET u == c.ui
        lim == isRateLimited(u, tnow)
        s0 == [NoSub EXCEPT !.password = u.password, !.urlKeyLen = c.props.urlKeyLen,
                            !.probe = c.props.probe,
                            !.priorWrong = Len(Recent(h.wrong, tnow)),
                            !.afterLock = /\ h.lockFrom >= 0
                                          /\ tnow >= h.lockFrom + LOCKOUT_DURATION_MS
                                          /\ \A i \in DOMAIN h.wrong : h.wrong[i] <= h.lockFrom]
    IN  IF u.password = ""
        THEN Finish(c, [u EXCEPT !.error = "empty"], s0, "empty", "none", tnow, f.local)
        ELSE IF lim.limited
        THEN Finish(c, [u EXCEPT !.attempts = lim.attempts, !.fresh = lim.set,
                                 !.lockedUntil = IF u.lockedUntil = 0 \/ tnow >= u.lockedUntil
                                                 THEN tnow + LOCKOUT_DURATION_MS ELSE @,
                                 !.error = "tooManyAttempts"],
                    s0, "limited", "none", tnow, f.local)
        ELSE LET u1 == [u EXCEPT !.attempts = lim.attempts, !.fresh = lim.set,
                                 !.isLoading = TRUE, !.error = "none"]
                 c1 == Render(c, u1, s0, tnow, f.local)
             IN  IF base64ToKey(c.props.saltOk).threw
                 THEN CatchOuter(c1, s0, "salt", tnow, f.local)
                 ELSE [c1 EXCEPT !.sub = [s0 EXCEPT !.pc = "derive", !.derives = 1,
                                             !.deriveLen = KeyLengthBytes(s0.urlKeyLen)]]

\* after verification, or without one
AfterVerify(c, s, tnow, f) == Succeed(c, s, tnow, f.local, f.session)

SubmitDerivedMut(c, tnow, f) ==
    LET s == c.sub
        d == deriveKeyFromPassword(s.password, s.deriveLen, f.derive)
        k == IF s.urlKeyLen # 0 THEN combineKeys(UrlKey(s.urlKeyLen), d.key)
             ELSE [threw |-> FALSE, key |-> d.key]
        s1 == [s EXCEPT !.passwordKey = d.key, !.finalKey = k.key,
                        !.combines = IF s.urlKeyLen # 0 THEN 1 ELSE 0,
                        !.mismatch = k.threw]
    IN  IF d.threw THEN CatchOuter(c, s, "derive", tnow, f.local)
        ELSE IF k.threw THEN CatchOuter(c, s1, "combine", tnow, f.local)
        ELSE [c EXCEPT !.sub = [s1 EXCEPT !.pc = "decrypt", !.decrypts = 1]]

\* handleSubmit from the settling of deriveKeyFromPassword to the next await
\* or to its end
SubmitDerived(c, tnow, f) ==
    LET s == c.sub
        d == deriveKeyFromPassword(s.password, s.deriveLen, f.derive)
        k == IF s.urlKeyLen # 0 THEN combineKeys(UrlKey(s.urlKeyLen), d.key)
             ELSE [threw |-> FALSE, key |-> d.key]
        s1 == [s EXCEPT !.passwordKey = d.key, !.finalKey = k.key,
                        !.combines = IF s.urlKeyLen # 0 THEN 1 ELSE 0,
                        !.mismatch = k.threw]
    IN  IF d.threw THEN CatchOuter(c, s, "derive", tnow, f.local)
        ELSE IF k.threw THEN CatchOuter(c, s1, "combine", tnow, f.local)
        ELSE IF s.probe # "none"
        THEN [c EXCEPT !.sub = [s1 EXCEPT !.pc = "decrypt", !.decrypts = 1]]
        ELSE AfterVerify(c, s1, tnow, f)

SubmitDecryptedMut(c, tnow, f) ==
    IF decrypt(c.sub.probe, c.sub.finalKey, GroupKey(c.props)).threw
    THEN CatchDecrypt(c, [c.sub EXCEPT !.decrypts = @ + 1], tnow, f.local)
    ELSE AfterVerify(c, c.sub, tnow, f)

\* handleSubmit from the settling of decrypt to its end
SubmitDecrypted(c, tnow, f) ==
    IF decrypt(c.sub.probe, c.sub.finalKey, GroupKey(c.props)).threw
    THEN CatchDecrypt(c, c.sub, tnow, f.local)
    ELSE AfterVerify(c, c.sub, tnow, f)

\* the behaviours of the environment: do derivation and the writes to
\* localStorage and sessionStorage go through
Environment(env) ==
    IF env \in {"faulty", "loading"}
    THEN [derive : BOOLEAN, local : BOOLEAN, session : BOOLEAN, reads : {TRUE}]
    ELSE IF env = "storage"
    THEN [derive : {TRUE}, local : BOOLEAN, session : {TRUE}, reads : BOOLEAN]
    ELSE {[derive |-> TRUE, local |-> TRUE, session |-> TRUE, reads |-> TRUE]}

NoHist == [wrong |-> <<>>, lockFrom |-> -1]

\* the props a prompt is mounted with
PropsOf(env) ==
    IF env \in {"reload", "storage", "groups"}
    THEN {[groupId |-> "g1", urlKeyLen |-> 0, probe |-> "valid", saltOk |-> TRUE]}
    ELSE IF env = "loading"
    THEN [groupId : {"g1"}, urlKeyLen : {0}, probe : {"valid"}, saltOk : BOOLEAN]
    ELSE IF env = "none"
    THEN {[groupId |-> "g1", urlKeyLen |-> 0, probe |-> "none", saltOk |-> TRUE]}
    ELSE [groupId : {"g1"}, urlKeyLen : {0} \cup KeyLengths,
          probe : IF env = "faulty" THEN {"none", "valid", "malformed"}
                  ELSE {"none", "valid"},
          saltOk : IF env = "faulty" THEN BOOLEAN ELSE {TRUE}]

\* a text JSON.parse rejects, and the JSON text of a value that is no
\* RateLimitState
Malformed == [kind |-> "malformed", attempts |-> <<>>, lockedUntil |-> 0]
OtherJSON == [kind |-> "other", attempts |-> <<>>, lockedUntil |-> 0]

\* the texts written to localStorage by other code
Texts == {JSONstringify([attempts |-> <<0>>, lockedUntil |-> 0]), Malformed, OtherJSON}

\* try { body } catch { return caught }
Try(body, caught) == IF body.threw THEN caught ELSE body

\* what a call of lib/storage.ts returned: kind is "null", "text" (a string),
\* "default", "parsed" (the value JSON.parse made of text), "true" or "false"
Returned(kind, text, l) == [threw |-> FALSE, kind |-> kind, text |-> text, local |-> l]

Thrown(l) == [threw |-> TRUE, kind |-> "none", text |-> NoText, local |-> l]

NoCall == [op |-> "none", failed |-> FALSE, held |-> NoText, given |-> NoText,
           res |-> Returned("none", NoText, <<>>)]

\* safeGetItem(key)
safeGetItem(l, key, f) ==
    Try(IF ~f.reads THEN Thrown(l)
        ELSE Returned(IF l.lockout[key].kind = "null" THEN "null" ELSE "text",
                      l.lockout[key], l),
        Returned("null", NoText, l))

\* safeSetItem(key, value)
safeSetItem(l, key, value, f) ==
    Try(IF ~f.local THEN Thrown(l)
        ELSE Returned("true", value, [l EXCEPT !.lockout[key] = value]),
        Returned("false", value, l))

\* safeRemoveItem(key)
safeRemoveItem(l, key, f) ==
    Try(IF ~f.local THEN Thrown(l)
        ELSE Returned("true", NoText, [l EXCEPT !.lockout[key] = NoText]),
        Returned("false", NoText, l))

\* safeGetJSON(key, defaultValue)
safeGetJSON(l, key, f) ==
    Try(IF ~f.reads THEN Thrown(l)
        ELSE IF l.lockout[key].kind = "null" THEN Returned("default", NoText, l)
        ELSE IF JSONparse(l.lockout[key]).threw THEN Thrown(l)
        ELSE Returned("parsed", l.lockout[key], l),
        Returned("default", NoText, l))

\* safeSetJSON(key, value), value given by its JSON text
safeSetJSON(l, key, value, f) ==
    Try(IF ~f.local THEN Thrown(l)
        ELSE Returned("true", value, [l EXCEPT !.lockout[key] = value]),
        Returned("false", value, l))

\* what of a lock and of failures is still running at time tnow
StillRunning(w, tnow) ==
    [attempts |-> Recent(w.attempts, tnow),
     lockedUntil |-> IF w.lockedUntil > tnow THEN w.lockedUntil ELSE 0]

\* the React state of a prompt before its first effects
InitialUi ==
    [password |-> "", isLoading |-> FALSE, error |-> "none",
     attempts |-> <<>>, lockedUntil |-> 0, remaining |-> FALSE, fresh |-> FALSE]

NoWindow == [attempts |-> <<>>, lockedUntil |-> 0]

\* the life of the page
NoPage ==
    [phase |-> "mounted",      \* "effects": the effects of a commit have run and the
                               \* re-render they asked for is pending; "crashed"
     setAttempts |-> FALSE, pendingAttempts |-> <<>>,   \* setAttempts(recentAttempts), pending
     setLocked |-> FALSE, pendingLocked |-> 0,          \* setLockedUntil(stored.lockedUntil), pending
     reloads |-> 0,            \* page loads after the first
     cut |-> FALSE,            \* the last page was left before its pending re-render
     found |-> "none",         \* what the last mount effect was handed by loadRateLimitState,
                               \* "null" or "value", and from what text
     foundIn |-> "null",
     safe |-> NoCall,          \* the last call of lib/storage.ts
     failedFor |-> {},         \* the groups for which an attempt has failed
     lockedFor |-> {},         \* the groups for which a submission was rejected as rate-limited
     inflight |-> 0,           \* handleSubmits between the start of derivation and their end
     held |-> NoWindow,        \* what was in effect when the prompt was last unmounted
     expected |-> NoWindow,    \* what of it was still running when the last mount ended
     restored |-> NoWindow,    \* what the last mount left in effect
     kept |-> NoStored]        \* what the last mount left stored

\* the mount effect (lines 86-102) followed by the persist effect (lines
\* 105-107) of the same commit, whose closure holds the state u of that
\* render; f tells which accesses to localStorage go through
Effects(l, pg, groupId, u, tnow, f) ==
    LET ld == loadRateLimitState(l, groupId, f.reads)
        stored == ld.value
        threw == ~ld.null /\ ~stored.isState     \* stored.attempts is undefined
        recentAttempts == Recent(stored.attempts, tnow)
        usable == ~ld.null /\ stored.isState
    IN  [local |-> saveRateLimitState(l, groupId, u, f.local),
         page |-> [pg EXCEPT !.phase = IF threw THEN "crashed" ELSE "effects",
                             !.found = IF ld.null THEN "null" ELSE "value",
                             !.foundIn = IF f.reads THEN l.lockout[groupId].kind ELSE "null",
                             !.setLocked = usable /\ stored.lockedUntil # 0
                                                  /\ stored.lockedUntil > tnow,
                             !.pendingLocked = stored.lockedUntil,
                             !.setAttempts = usable /\ Len(recentAttempts) > 0,
                             !.pendingAttempts = recentAttempts]]

\* the prompt has mounted in a browser that holds nothing for the group:
\* the persist effect has written the empty state
InitClientWith(env) ==
    /\ props \in PropsOf(env)
    /\ ui = InitialUi
    /\ local = [lockout |-> [g \in GroupIds |->
                                IF g = props.groupId
                                THEN JSONstringify([attempts |-> <<>>, lockedUntil |-> 0])
                                ELSE NoText],
                key |-> <<>>, session |-> <<>>]
    /\ sub = NoSub
    /\ lastSub = NoSub
    /\ hist = NoHist
    /\ page = NoPage

InitRest == InitMiddleware /\ InitClientWith("none")

-----------------------------------------------------------------------------
(* State *)

\* the last call the second process completed, with what it returned, and
\* its async calls in flight
NoTwinOp == [op |-> "none", res |-> NoResult, pending |-> NoTasks]

InitWorld(st) ==
    [STORAGE_TYPE |-> st, storage |-> NullStore, databaseStorage |-> 0,
     memoryStorage |-> 0, memInst |-> <<>>, dbInst |-> <<>>,
     heap |-> <<>>, table |-> [k \in AllKeys |-> NoRec]]

SetWorld(w) ==
    /\ storage' = w.storage
    /\ databaseStorage' = w.databaseStorage
    /\ memoryStorage' = w.memoryStorage
    /\ memInst' = w.memInst
    /\ dbInst' = w.dbInst
    /\ heap' = w.heap
    /\ table' = w.table

InitLimiter(types) ==
    /\ now = 0
    /\ ticks = 0
    /\ STORAGE_TYPE \in types
    /\ storage = NullStore
    /\ databaseStorage = 0
    /\ memoryStorage = 0
    /\ memInst = <<>>
    /\ dbInst = <<>>
    /\ heap = <<>>
    /\ table = [k \in AllKeys |-> NoRec]
    /\ tasks = [t \in Tasks |-> IdleTask]
    /\ faults = 0
    /\ lastOp = NoOp
    /\ gCount = [k \in Identities |-> 0]
    /\ gFirst = [k \in Identities |-> 0]
    /\ gLast = [k \in Identities |-> 0]
    /\ gLock = [k \in Identities |-> 0]
    /\ gLockLast = [k \in Identities |-> FALSE]
    /\ gClean = [k \in Identities |-> TRUE]
    /\ gSpelling = [k \in Identities |-> <<>>]
    /\ twin = InitWorld("memory")
    /\ twinOp = NoTwinOp

InitWith(types) == InitLimiter(types) /\ InitRest

Quiescent == \A t \in Tasks : tasks[t].pc = "idle"

\* the record the storage in use holds for key k
StoredIn(w, k) ==
    CASE w.storage.kind = "mem" -> MapGet(w, w.storage.id, k)
      [] w.storage.kind = "db" -> w.table[k]
      [] w.memoryStorage # 0 -> MapGet(w, w.memoryStorage, k)
      [] OTHER -> NoRec

Stored(k) == StoredIn(World, k)

\* the calls in flight for identity k, other than t
OthersInFlight(k, t) ==
    \E u \in Tasks \ {t} : tasks[u].pc # "idle" /\ ToLowerCase(tasks[u].email) = k

(* History of an identity.  A specification keeps the part of the history *)
(* its properties read: obs is "api" (the synchronous API in memory),      *)
(* "seq" (calls awaited one after the other), "tasks" (concurrent calls)   *)
(* or "sweep" (no history: the sweeps are observed).                       *)

GhostFail(email, lock, sync, obs) ==
    LET k == ToLowerCase(email) IN
    IF obs = "sweep" THEN UNCHANGED ghosts ELSE
    /\ gSpelling' = IF obs = "seq" THEN [gSpelling EXCEPT ![k] = email] ELSE gSpelling
    /\ gCount' = IF obs = "seq" THEN gCount ELSE [gCount EXCEPT ![k] = @ + 1]
    /\ gFirst' = IF obs \in {"api", "tasks"}
                 THEN [gFirst EXCEPT ![k] = IF gCount[k] = 0 THEN now ELSE @]
                 ELSE gFirst
    /\ gLast' = IF obs = "api" THEN [gLast EXCEPT ![k] = now] ELSE gLast
    /\ gLock' = IF obs = "api"
                THEN [gLock EXCEPT ![k] = IF lock # 0 THEN lock ELSE @]
                ELSE gLock
    /\ gLockLast' = IF obs = "api" THEN [gLockLast EXCEPT ![k] = lock # 0]
                    ELSE gLockLast
    /\ gClean' = IF obs = "tasks" THEN [gClean EXCEPT ![k] = @ /\ ~sync]
                 ELSE gClean

GhostClear(k, clean, obs) ==
    /\ gCount' = [gCount EXCEPT ![k] = 0]
    /\ gFirst' = [gFirst EXCEPT ![k] = 0]
    /\ gLast' = [gLast EXCEPT ![k] = 0]
    /\ gLock' = [gLock EXCEPT ![k] = 0]
    /\ gLockLast' = [gLockLast EXCEPT ![k] = FALSE]
    /\ gClean' = IF obs = "tasks" THEN [gClean EXCEPT ![k] = clean] ELSE gClean
    /\ gSpelling' = [gSpelling EXCEPT ![k] = <<>>]

\* the window of an unlocked identity has elapsed
WindowElapsed(k) ==
    /\ gCount[k] > 0
    /\ gCount[k] < MAX_ATTEMPTS
    /\ gLast[k] - gFirst[k] <= WINDOW_MS
    /\ now - gFirst[k] > WINDOW_MS

SameIdentity(e1, e2) == ToLowerCase(e1) = ToLowerCase(e2)

\* what a clear found stored for the identity
PriorOf(rec) ==
    IF rec = NoRec THEN "none"
    ELSE IF rec.lockedUntil # 0 THEN "locked" ELSE "partial"

\* the last completed call, as the specification observes it
Observe(op, obs) ==
    CASE obs = "api" -> [op EXCEPT !.prior = "none"]
      [] obs = "seq" ->
            [op EXCEPT !.email = IF op.op = "check" THEN op.email
                                 ELSE ToLowerCase(op.email),
                       !.at = 0, !.left = NoRec, !.qfail = FALSE,
                       !.expired = FALSE, !.afterExpired = FALSE]
      [] obs = "equiv" -> [NoOp EXCEPT !.op = op.op, !.res = op.res]
      [] obs = "shared" ->
            [NoOp EXCEPT !.op = op.op, !.email = ToLowerCase(op.email),
                         !.res = op.res, !.async = op.async]
      [] OTHER -> NoOp

\* no call is suspended between two awaits that no I/O separates
AtIO == \A t \in Tasks : tasks[t].pc \in {"idle", "dbProbe", "dbQuery", "probeAvail"}

-----------------------------------------------------------------------------
(* The second process: it is given each call when the first is.  Its async *)
(* call selects the storage at once (in memory mode getStorage runs to its *)
(* end without suspending) and does the rest when the first process's      *)
(* call completes, which gives both calls the same latency.                *)

TwinSync(op, email, obs) ==
    IF obs # "equiv" THEN UNCHANGED twins
    ELSE LET r == CASE op = "check" -> checkRateLimit(twin, email, now)
                    [] op = "record" ->
                          [w |-> recordFailedAttempt(twin, twinOp.pending, email, now).w,
                           res |-> NoResult]
                    [] OTHER -> [w |-> clearAttempts(twin, email).w, res |-> NoResult]
         IN  /\ twin' = Collect(r.w, twinOp.pending)
             /\ twinOp' = [twinOp EXCEPT !.op = op, !.res = r.res]

TwinAsync(op, email, t, obs) ==
    IF obs # "equiv" THEN UNCHANGED twins
    ELSE LET s == StartCall(twin, op, email, FALSE)
         IN  /\ twin' = s.w
             /\ twinOp' = [twinOp EXCEPT !.pending[t] = s.tk]

\* the first process completes the call in slot t
TwinDone(tk, t, obs) ==
    IF obs # "equiv" \/ tk.detached THEN UNCHANGED twins
    ELSE LET r == RunTask(twin, twinOp.pending, t, TRUE, now, MaxAwaits)
             left == [twinOp.pending EXCEPT ![t] = IdleTask]
         IN  /\ twin' = Collect(r.w, left)
             /\ twinOp' = [op |-> tk.op, res |-> r.tk.res, pending |-> left]

-----------------------------------------------------------------------------
(* Actions *)

\* time passes, by one of the amounts S
Advance(S) ==
    /\ ticks < MaxTicks
    /\ \E d \in S : now' = now + d
    /\ ticks' = ticks + 1
    /\ UNCHANGED <<STORAGE_TYPE, world, tasks, faults, lastOp, ghosts, twins, rest>>

Tick == Advance(Steps)

\* the setInterval callback of MemoryStorage instance i
Cleanup(i, obs) ==
    /\ SetWorld(Collect(MemoryCleanup(World, i, now), tasks))
    /\ lastOp' = IF obs = "sweep"
                 THEN [NoOp EXCEPT !.op = "cleanup", !.at = now,
                                   !.before = [k \in AllKeys |-> MapGet(World, i, k)]]
                 ELSE lastOp
    /\ UNCHANGED <<now, ticks, STORAGE_TYPE, tasks, faults, ghosts, twins, rest>>

CheckRateLimit(email, obs) ==
    LET r == checkRateLimit(World, email, now)
        k == ToLowerCase(email)
        follows == /\ lastOp.op = "clear" /\ ~lastOp.async
                   /\ SameIdentity(lastOp.email, email)
    IN  /\ SetWorld(Collect(r.w, tasks))
        /\ lastOp' = Observe(
                        [NoOp EXCEPT !.op = "check", !.email = email, !.at = now,
                          !.res = r.res,
                          !.left = StoredIn(r.w, KeyOf(email)),
                          !.afterClear = IF follows THEN "ok" ELSE "no",
                          !.prior = IF follows THEN lastOp.prior ELSE "none",
                          !.expired = WindowElapsed(k)], obs)
        /\ TwinSync("check", email, obs)
        /\ UNCHANGED <<now, ticks, STORAGE_TYPE, tasks, faults, ghosts, rest>>

\* the slot a new call takes
FreeSlot == IF tasks["t1"].pc = "idle" THEN "t1" ELSE "t2"

\* the counts the model follows: the failures recorded for identity k since
\* its last clear, and the count of every record a store or a call holds
Counts(k) ==
    {gCount[k]} \cup {table[x].count : x \in DOMAIN table}
      \cup {heap[id].count : id \in DOMAIN heap}
      \cup {tasks[t].arg.count : t \in Tasks} \cup {tasks[t].val.count : t \in Tasks}

Followed(k) == CHOOSE c \in Counts(k) : \A d \in Counts(k) : d <= c

\* a call is made and runs to its first await
Spawn(w, op, email, detached, t) ==
    LET s == StartCall(w, op, email, detached)
    IN  /\ tasks[t].pc = "idle"
        /\ tasks' = [tasks EXCEPT ![t] = s.tk]
        /\ SetWorld(Collect(s.w, tasks'))

RecordFailedAttempt(email, obs) ==
    LET r == recordFailedAttempt(World, tasks, email, now)
        k == ToLowerCase(email)
    IN  /\ Followed(k) < MaxFails
        /\ IF r.spawn
           THEN /\ Spawn(r.w, "record", email, TRUE, FreeSlot)
                /\ GhostFail(email, 0, FALSE, obs)
           ELSE /\ SetWorld(Collect(r.w, tasks))
                /\ tasks' = tasks
                /\ GhostFail(email, StoredIn(r.w, KeyOf(email)).lockedUntil, TRUE, obs)
        /\ lastOp' = Observe(
                        [NoOp EXCEPT !.op = "record", !.email = email, !.at = now,
                          !.left = StoredIn(r.w, KeyOf(email)),
                          !.afterExpired =
                              /\ lastOp.op = "check" /\ lastOp.expired
                              /\ SameIdentity(lastOp.email, email)], obs)
        /\ TwinSync("record", email, obs)
        /\ UNCHANGED <<now, ticks, STORAGE_TYPE, faults, rest>>

ClearAttempts(email, obs) ==
    LET r == clearAttempts(World, email)
        k == ToLowerCase(email)
    IN  /\ IF r.spawn
           THEN /\ Spawn(r.w, "clear", email, TRUE, FreeSlot)
                /\ UNCHANGED ghosts
           ELSE /\ SetWorld(Collect(r.w, tasks))
                /\ tasks' = tasks
                /\ GhostClear(k, ~OthersInFlight(k, "none"), obs)
        /\ lastOp' = Observe(
                        [NoOp EXCEPT !.op = "clear", !.email = email, !.at = now,
                          !.left = StoredIn(r.w, KeyOf(email)),
                          !.prior = PriorOf(Stored(k))], obs)
        /\ TwinSync("clear", email, obs)
        /\ UNCHANGED <<now, ticks, STORAGE_TYPE, faults, rest>>

\* checkRateLimitAsync / recordFailedAttemptAsync / clearAttemptsAsync is called
StartAsync(op, email, obs) ==
    LET k == ToLowerCase(email)
    IN  /\ Spawn(World, op, email, FALSE, FreeSlot)
        /\ IF op = "record"
           THEN Followed(k) < MaxFails /\ GhostFail(email, 0, FALSE, obs)
           ELSE UNCHANGED ghosts
        /\ TwinAsync(op, email, FreeSlot, obs)
        /\ UNCHANGED <<now, ticks, STORAGE_TYPE, faults, lastOp, rest>>

\* what the completed call tk leaves as the last completed call
Completed(tk) ==
    LET follows == /\ tk.op = "check"
                   /\ lastOp.op = "clear" /\ lastOp.async
                   /\ SameIdentity(lastOp.email, tk.email)
    IN  IF tk.detached THEN lastOp
        ELSE [NoOp EXCEPT !.op = tk.op, !.email = tk.email, !.at = tk.tnow,
                          !.async = TRUE, !.res = tk.res, !.raised = tk.raised,
                          !.qfail = tk.qfail, !.getFailed = tk.getFailed,
                          !.delFailed = tk.delFailed,
                          !.afterClear =
                              IF follows
                              THEN (IF lastOp.delFailed THEN "failed" ELSE "ok")
                              ELSE "no",
                          !.prior =
                              IF tk.op = "clear" THEN PriorOf(Stored(ToLowerCase(tk.email)))
                              ELSE IF follows THEN lastOp.prior ELSE "none"]

\* the outcomes of the query a suspended call waits for (TRUE = it succeeds)
Outcomes(tk, obs) ==
    IF tk.pc \notin {"dbProbe", "dbQuery", "probeAvail"} \/ obs \in {"tasks", "sweep"}
    THEN {TRUE}
    ELSE IF obs = "equiv" THEN {FALSE}
    ELSE IF obs = "factory"
    THEN (IF tk.pc = "probeAvail" \/ tk.stage = "storageTest" THEN BOOLEAN ELSE {TRUE})
    ELSE IF faults < MaxFaults THEN BOOLEAN ELSE {TRUE}

\* the suspended call t resumes and runs to its next await, or to its end
Resume(t, obs) ==
    /\ tasks[t].pc # "idle"
    /\ \E q \in Outcomes(tasks[t], obs) :
         LET r == TaskStep(World, tasks, t, q, now)
             k == ToLowerCase(r.tk.email)
         IN  /\ faults' = IF q \/ obs \in {"equiv", "factory"} THEN faults ELSE faults + 1
             /\ IF r.tk.pc = "done"
                THEN /\ tasks' = [tasks EXCEPT ![t] = IdleTask]
                     /\ SetWorld(Collect(r.w, tasks'))
                     /\ lastOp' = Observe(Completed(r.tk), obs)
                     /\ TwinDone(r.tk, t, obs)
                     /\ IF r.tk.op = "clear"
                        THEN GhostClear(k, ~r.tk.qfail /\ ~OthersInFlight(k, t), obs)
                        ELSE IF r.tk.op = "record" /\ r.tk.qfail /\ obs = "tasks"
                        THEN /\ gClean' = [gClean EXCEPT ![k] = FALSE]
                             /\ UNCHANGED <<gCount, gFirst, gLast, gLock, gLockLast, gSpelling>>
                        ELSE UNCHANGED ghosts
                ELSE /\ tasks' = [tasks EXCEPT ![t] = r.tk]
                     /\ SetWorld(Collect(r.w, tasks'))
                     /\ UNCHANGED <<lastOp, ghosts, twins>>
    /\ UNCHANGED <<now, ticks, STORAGE_TYPE, rest>>

(* The server: requests *)

\* what a step of request r leaves: the request (or its slot, free again)
\* and the records
Serve(r, res) ==
    /\ opAttempts' = res.store
    /\ reqs' = [reqs EXCEPT ![r] = IF res.rq.pc = "idle" THEN NoReq ELSE res.rq]
    /\ mwLast' = IF res.rq.pc = "idle" THEN res.rq ELSE mwLast
    /\ passed' = IF res.rq.pc = "next" /\ res.rq.groupId # ""
                 THEN [passed EXCEPT ![OpKey(res.rq.operation, res.rq.groupId)] = @ + 1]
                 ELSE passed
    /\ UNCHANGED <<now, ticks, limiter, client, others>>

\* a request for an operation arrives
Request(r, operation, raw, parsed) ==
    /\ reqs[r].pc = "idle"
    /\ Serve(r, StartRequest(opAttempts, operation, raw, parsed, now))

\* `await getRawInput()` resumes
RawInput(r) ==
    /\ reqs[r].pc = "rawInput"
    /\ Serve(r, rateLimitMiddleware(opAttempts,
                                    [reqs[r] EXCEPT !.groupId = reqs[r].raw], now))

\* next() returns: the request leaves the server
NextReturns(r) ==
    /\ reqs[r].pc = "next"
    /\ Serve(r, [store |-> opAttempts, rq |-> [reqs[r] EXCEPT !.pc = "idle"]])

(* The sessions of the server *)

\* the session the requests of the browser carry changes: sign-in, sign-out,
\* second factor given, password changed
SetSession(session) ==
    /\ session # app.session
    /\ \/ app.session.kind # "user" \/ session.kind # "user"
       \/ /\ session.isAdmin = app.session.isAdmin
          /\ app.session.requiresTwoFactor \/ ~session.requiresTwoFactor
          /\ app.session.mustChangePassword \/ ~session.mustChangePassword
    /\ app' = [app EXCEPT !.session = session]
    /\ UNCHANGED <<now, ticks, limiter, middleware, client, hook>>

\* a request to a procedure built on publicProcedure or on adminProcedure
Call(proc) ==
    LET ctx == createTRPCContext(app.private, app.session)
    IN  /\ app' = [app EXCEPT !.last =
                      [NoCalled EXCEPT
                         !.proc = proc, !.private = app.private,
                         !.session = app.session, !.ctx = ctx,
                         !.res = IF proc = "public" THEN publicProcedure(app.private, ctx)
                                 ELSE adminProcedure(app.private, ctx),
                         !.mirror = IF proc = "public"
                                    THEN checkPublicProcedure(app.private, app.session)
                                    ELSE checkAdminProcedure(app.private, app.session),
                         !.public = publicProcedure(app.private, ctx)]]
        /\ UNCHANGED <<now, ticks, limiter, middleware, client, hook>>

\* a POST to the upload route
Upload ==
    LET r == POST(app.private, app.session)
    IN  /\ app' = [app EXCEPT !.last =
                      [NoCalled EXCEPT !.proc = "upload", !.private = app.private,
                                       !.session = app.session, !.ctx = app.session,
                                       !.status = r.status, !.s3 = r.s3]]
        /\ UNCHANGED <<now, ticks, limiter, middleware, client, hook>>

(* The browser: the decrypting components *)

\* the query or the encryption provider hands the component other values:
\* it renders again and runs its effect
Inputs(in) ==
    /\ hook.mounted
    /\ in # hook.in
    /\ hook' = useBalancesEffect(hook, in)
    /\ UNCHANGED <<now, ticks, limiter, middleware, client, app>>

\* the decryption settles for the effect that is still current
Decrypted ==
    /\ hook.run.pending
    /\ hook' = [useBalancesSettled(hook, hook.run, TRUE) EXCEPT
                    !.run = NoRun,
                    !.done = IF decryptExpenses(hook.run.raw, hook.run.key).threw
                             THEN "failed" ELSE "ok"]
    /\ UNCHANGED <<now, ticks, limiter, middleware, client, app>>

\* the decryption settles for an effect that was cleaned up
Superseded ==
    /\ hook.old.pending
    /\ LET h1 == useBalancesSettled(hook, hook.old, FALSE)
       IN  hook' = [h1 EXCEPT !.old.pending = FALSE,
                              !.done = "stale",
                              !.staleWrote = Written(h1) # Written(hook)]
    /\ UNCHANGED <<now, ticks, limiter, middleware, client, app>>

\* the component unmounts: the cleanup of its effect runs
Unmount ==
    /\ hook.mounted
    /\ hook' = [hook EXCEPT !.mounted = FALSE, !.run = NoRun,
                            !.old = IF hook.run.pending THEN hook.run ELSE @,
                            !.done = "unmounted"]
    /\ UNCHANGED <<now, ticks, limiter, middleware, client, app>>

(* The browser: the user and the prompt *)

\* the amounts by which the clock advances between the steps of the prompt
ClientSteps == {RATE_LIMIT_WINDOW_MS, LOCKOUT_DURATION_MS}

\* what the history keeps of a handleSubmit that has returned
Remember(h, s, tnow) ==
    CASE s.outcome = "failed" ->
            [h EXCEPT !.wrong =
                LET w == Append(h.wrong, tnow)
                IN  IF Len(w) > RATE_LIMIT_ATTEMPTS THEN Tail(w) ELSE w]
      [] s.outcome = "ok" -> NoHist
      [] s.outcome = "limited" ->
            [h EXCEPT !.lockFrom =
                IF h.lockFrom < 0 \/ tnow >= h.lockFrom + LOCKOUT_DURATION_MS
                THEN tnow ELSE h.lockFrom]
      [] OTHER -> h

\* the prompt after a step of handleSubmit
SetClient(c, started, env) ==
    /\ props' = c.props
    /\ ui' = c.ui
    /\ local' = c.local
    /\ IF c.sub.pc = "idle"
       THEN /\ sub' = NoSub
            /\ lastSub' = c.sub
            /\ hist' = Remember(hist, c.sub, now)
       ELSE /\ sub' = c.sub
            /\ UNCHANGED <<lastSub, hist>>
    /\ page' = [page EXCEPT !.inflight =
                    IF started THEN @ + (IF c.sub.pc = "idle" THEN 0 ELSE 1)
                    ELSE @ - (IF c.sub.pc = "idle" THEN 1 ELSE 0),
                  !.failedFor =
                    IF env = "groups" /\ c.sub.pc = "idle" /\ c.sub.outcome = "failed"
                    THEN @ \cup {c.props.groupId} ELSE @,
                  !.lockedFor =
                    IF env = "groups" /\ c.sub.pc = "idle" /\ c.sub.outcome = "limited"
                    THEN @ \cup {c.props.groupId} ELSE @]
    /\ UNCHANGED <<now, ticks, limiter, others, middleware>>

\* onChange of the input: the user types
Type(pw) ==
    /\ page.phase = "mounted"
    /\ ~Disabled(ui)
    /\ pw # ui.password
    /\ ui' = [ui EXCEPT !.password = pw]
    /\ UNCHANGED <<now, ticks, limiter, others, middleware, props, local, sub, lastSub, hist, page>>

\* onClick of the show-password button: the prompt renders again
Toggle ==
    /\ page.phase = "mounted"
    /\ ui' = [ui EXCEPT !.remaining = remainingLockoutTime(ui.lockedUntil, now) > 0]
    /\ UNCHANGED <<now, ticks, limiter, others, middleware, props, local, sub, lastSub, hist, page>>

\* onSubmit of the form
Submit(env) ==
    /\ page.phase = "mounted"
    /\ ~Disabled(ui)
    /\ \E f \in Environment(env) : SetClient(SubmitStart(Client, hist, now, f), TRUE, env)

\* the promise handleSubmit awaits settles
Settle(env) ==
    /\ sub.pc # "idle"
    /\ \E f \in Environment(env) :
          SetClient(IF sub.pc = "derive" THEN SubmitDerived(Client, now, f)
                    ELSE SubmitDecrypted(Client, now, f), FALSE, env)

\* the page is loaded again: the prompt of the old page is gone with what it
\* was doing; the new one renders with the initial state and runs its effects
Reload(env) ==
    /\ page.reloads < MaxReloads
    /\ \E f \in Environment(env) :
          LET held == IF page.phase = "mounted"
                      THEN [attempts |-> ui.attempts, lockedUntil |-> ui.lockedUntil]
                      ELSE page.held
              e == Effects(local, [page EXCEPT !.reloads = @ + 1, !.inflight = 0,
                                               !.cut = page.phase = "effects",
                                               !.held = held],
                           props.groupId, InitialUi, now, f)
          IN  /\ local' = e.local
              /\ page' = e.page
    /\ ui' = InitialUi
    /\ sub' = NoSub
    /\ lastSub' = NoSub
    /\ UNCHANGED <<now, ticks, limiter, others, middleware, props, hist>>

\* the parent renders the prompt, which stays mounted, with another groupId:
\* the state hooks keep their values, and both effects, which depend on
\* groupId, run again
ChangeGroup(g, env) ==
    /\ page.phase = "mounted"
    /\ sub.pc = "idle"
    /\ g # props.groupId
    /\ props' = [props EXCEPT !.groupId = g]
    /\ \E f \in Environment(env) :
          LET e == Effects(local, page, g, ui, now, f)
          IN  local' = e.local /\ page' = e.page
    /\ UNCHANGED <<now, ticks, limiter, others, middleware, ui, sub, lastSub, hist>>

\* other code of the page calls lib/storage.ts on the key of a group
SafeCall(op, key, text, env) ==
    \E f \in Environment(env) :
        LET r == CASE op = "safeGetItem" -> safeGetItem(local, key, f)
                   [] op = "safeSetItem" -> safeSetItem(local, key, text, f)
                   [] op = "safeRemoveItem" -> safeRemoveItem(local, key, f)
                   [] op = "safeGetJSON" -> safeGetJSON(local, key, f)
                   [] op = "safeSetJSON" -> safeSetJSON(local, key, text, f)
        IN  /\ local' = r.local
            /\ page' = [page EXCEPT !.safe =
                            [op |-> op,
                             failed |-> IF op \in {"safeGetItem", "safeGetJSON"}
                                        THEN ~f.reads ELSE ~f.local,
                             held |-> local.lockout[key], given |-> text,
                             res |-> [r EXCEPT !.local = <<>>]]]
            /\ UNCHANGED <<now, ticks, limiter, others, middleware, props, ui, sub, lastSub, hist>>

SafeOps == {"safeGetItem", "safeSetItem", "safeRemoveItem", "safeGetJSON", "safeSetJSON"}

\* the render that the state updates of the mount effect asked for, and the
\* persist effect after it
Rerender(env) ==
    /\ page.phase = "effects"
    /\ \E f \in Environment(env) :
          LET u == [ui EXCEPT !.attempts = IF page.setAttempts THEN page.pendingAttempts ELSE @,
                              !.fresh = page.setAttempts,
                              !.lockedUntil = IF page.setLocked THEN page.pendingLocked ELSE @]
              c == Render(Client, u, sub, now, f.local)
          IN  /\ ui' = c.ui
              /\ local' = c.local
              /\ page' = [page EXCEPT !.phase = "mounted",
                                       !.setAttempts = FALSE, !.pendingAttempts = <<>>,
                                       !.setLocked = FALSE, !.pendingLocked = 0,
                                       !.restored = [attempts |-> c.ui.attempts,
                                                     lockedUntil |-> c.ui.lockedUntil],
                                       !.kept = StoredState(c.local.lockout[props.groupId]),
                                       !.held = NoWindow,
                                       !.expected = StillRunning(page.held, now)]
    /\ UNCHANGED <<now, ticks, limiter, others, middleware, props, sub, lastSub, hist>>

-----------------------------------------------------------------------------
(* Specifications *)

\* the synchronous API on the default in-memory backend
Init == InitWith({"memory"})

Next ==
    \/ Tick
    \/ \E i \in DOMAIN memInst : Cleanup(i, "api")
    \/ \E e \in Emails : CheckRateLimit(e, "api")
    \/ \E e \in Emails : RecordFailedAttempt(e, "api")
    \/ \E e \in Emails : ClearAttempts(e, "api")

Spec == Init /\ [][Next]_vars

\* every backend; each call, sync or async, is awaited before the next is
\* made, all within one millisecond; database queries may fail
InitSeq == InitWith({"memory", "database", "auto"})

NextSeq ==
    \/ Quiescent /\ \E e \in Emails : CheckRateLimit(e, "seq")
    \/ Quiescent /\ \E e \in Emails : RecordFailedAttempt(e, "seq")
    \/ Quiescent /\ \E e \in Emails : ClearAttempts(e, "seq")
    \/ Quiescent /\ \E e \in Emails, op \in {"check", "record", "clear"} :
           StartAsync(op, e, "seq")
    \/ \E t \in Tasks : Resume(t, "seq")

SpecSeq == InitSeq /\ [][NextSeq]_vars

\* async calls made concurrently within one millisecond, the database
\* answering every query
InitTasks == InitWith({"memory", "database"})

NextTasks ==
    \/ \E e \in Emails, op \in {"check", "record", "clear"} :
           StartAsync(op, e, "tasks")
    \/ \E t \in Tasks : Resume(t, "tasks")

SpecTasks == InitTasks /\ [][NextTasks]_vars

\* RATE_LIMIT_STORAGE=auto with every database query failing, beside a
\* process with RATE_LIMIT_STORAGE=memory that is given the same calls; one
\* async call at a time, sync calls also while it waits for the database
InitEquiv == InitWith({"auto"})

NextEquiv ==
    \/ AtIO /\ \E e \in Emails : CheckRateLimit(e, "equiv")
    \/ AtIO /\ \E e \in Emails : RecordFailedAttempt(e, "equiv")
    \/ AtIO /\ \E e \in Emails : ClearAttempts(e, "equiv")
    \/ Quiescent /\ \E e \in Emails, op \in {"check", "record", "clear"} :
           StartAsync(op, e, "equiv")
    \/ \E t \in Tasks : Resume(t, "equiv")

SpecEquiv == InitEquiv /\ [][NextEquiv]_vars

\* RATE_LIMIT_STORAGE=memory from a fresh process: failures are recorded and
\* checks are made through the sync and the async API in any order, each
\* call awaited before the next, all within one millisecond
InitShared == InitWith({"memory"})

NextShared ==
    \/ Quiescent /\ \E e \in Emails : CheckRateLimit(e, "shared")
    \/ Quiescent /\ \E e \in Emails : RecordFailedAttempt(e, "shared")
    \/ Quiescent /\ \E e \in Emails, op \in {"check", "record"} :
           StartAsync(op, e, "shared")
    \/ \E t \in Tasks : Resume(t, "shared")

SpecShared == InitShared /\ [][NextShared]_vars

\* the first async calls of a process are made concurrently, within one
\* millisecond; the probes of getStorage may find the table or not, every
\* other query is answered
InitFactory == InitWith({"memory", "database", "auto"})

NextFactory ==
    \/ \E e \in Emails, op \in {"check", "record"} : StartAsync(op, e, "factory")
    \/ \E t \in Tasks : Resume(t, "factory")

SpecFactory == InitFactory /\ [][NextFactory]_vars

\* the session checks of a server in either mode, as the session of the
\* browser changes
InitAuth ==
    /\ InitLimiter({"memory"})
    /\ InitTrpc
    /\ InitApp(BOOLEAN)
    /\ hook = NoHook
    /\ InitClientWith("none")

NextAuth ==
    \/ \E session \in Sessions : SetSession(session)
    \/ \E proc \in {"public", "admin"} : Call(proc)
    \/ Upload

SpecAuth == InitAuth /\ [][NextAuth]_vars

\* the balances hook under every change of the expenses and of the key
InitBalances ==
    /\ InitLimiter({"memory"})
    /\ InitTrpc
    /\ InitApp({FALSE})
    /\ hook \in {[NoHook EXCEPT !.who = c] : c \in Components}
    /\ InitClientWith("none")

NextBalances ==
    \/ \E in \in HookInputs : Inputs(in)
    \/ Decrypted
    \/ Superseded
    \/ Unmount

SpecBalances == InitBalances /\ [][NextBalances]_vars

\* the inputs once the encryption provider has loaded: a key or none
LoadedInputs == {in \in HookInputs : ~in.isKeyLoading /\ in.hasKey = (in.key # "null")}

\* the components that stay mounted while the data is refetched and the key
\* changes; a decryption that was started settles in the end
NextFollow ==
    \/ \E in \in LoadedInputs : Inputs(in)
    \/ Decrypted
    \/ Superseded

SpecFollow ==
    /\ InitBalances /\ [][NextFollow]_vars
    /\ WF_vars(Decrypted)
    /\ WF_vars(Superseded)

\* the sweeps: failures of two identities are recorded as time passes, on
\* the in-memory backend and (through recordFailedAttemptAsync, one call at
\* a time, every query answered) on the database backend; the timer of each
\* MemoryStorage fires at any time
InitSweep == InitWith({"memory", "database"})

NextSweep ==
    \/ Advance({WINDOW_MS})
    \/ \E i \in DOMAIN memInst : Cleanup(i, "sweep")
    \/ STORAGE_TYPE = "memory" /\ \E e \in SweepEmails : RecordFailedAttempt(e, "sweep")
    \/ STORAGE_TYPE = "database" /\ Quiescent
          /\ \E e \in SweepEmails : StartAsync("record", e, "sweep")
    \/ \E t \in Tasks : Resume(t, "sweep")

SpecSweep == InitSweep /\ [][NextSweep]_vars

\* the same, where a timer that has something to delete fires in the end
\* (setInterval) and a call that is awaited resumes in the end
SpecSweepFair ==
    /\ SpecSweep
    /\ WF_vars(\E i \in DOMAIN memInst : Cleanup(i, "sweep"))
    /\ WF_vars(\E t \in Tasks : Resume(t, "sweep"))

\* the server: requests for the rate-limited operation arrive and are
\* handled concurrently, within one millisecond
InitServer == InitWith({"memory"})

NextServer ==
    \/ \E r \in Reqs, o \in Operations, g \in GroupInputs, parsed \in BOOLEAN :
          Request(r, o, g, parsed)
    \/ \E r \in Reqs : RawInput(r)
    \/ \E r \in Reqs : NextReturns(r)

SpecServer == InitServer /\ [][NextServer]_vars

\* the prompt of one group in a browser whose storage works, with a salt
\* that decodes and a derivation that resolves
InitClient == InitLimiter({"memory"}) /\ InitMiddleware /\ InitClientWith("ok")

NextClient ==
    \/ ticks < MaxClientTicks /\ Advance(ClientSteps)
    \/ \E pw \in Passwords : Type(pw)
    \/ Toggle
    \/ Submit("ok")
    \/ Settle("ok")

SpecClient == InitClient /\ [][NextClient]_vars

\* the same within one millisecond, where the salt may not decode, the probe
\* may be malformed, the derivation may reject and the writes to the storage
\* may throw
InitFaulty == InitLimiter({"memory"}) /\ InitMiddleware /\ InitClientWith("faulty")

NextFaulty ==
    \/ \E pw \in Passwords : Type(pw)
    \/ Submit("faulty")
    \/ Settle("faulty")

SpecFaulty == InitFaulty /\ [][NextFaulty]_vars

\* a prompt with a probe and without URL key on the same faulty ground, where every promise
\* handleSubmit awaits settles in the end
InitLoading == InitLimiter({"memory"}) /\ InitMiddleware /\ InitClientWith("loading")

NextLoading ==
    \/ \E pw \in Passwords \ {""} : Type(pw)
    \/ Submit("loading")
    \/ Settle("loading")

SpecLoading == InitLoading /\ [][NextLoading]_vars /\ WF_vars(Settle("loading"))

\* nothing of the prompt is under way: no handleSubmit, no pending render
Settled == sub.pc = "idle" /\ page.phase # "effects"

\* the prompt of one group whose page is loaded again at any time, also
\* before the re-render that a mount asked for; the browser storages work;
\* the clock steps are minutes, during which what is under way has ended
InitReload == InitLimiter({"memory"}) /\ InitMiddleware /\ InitClientWith("reload")

NextReload ==
    \/ ticks < MaxClientTicks /\ Settled /\ Advance(ClientSteps)
    \/ \E pw \in Passwords \ {""} : Type(pw)
    \/ Submit("ok")
    \/ Settle("ok")
    \/ Reload("ok")
    \/ Rerender("ok")

SpecReload == InitReload /\ [][NextReload]_vars

\* the prompt left to itself: the user types and submits whenever the
\* controls allow it and does nothing else, the clock advances, the promises
\* settle
InitUnlock == InitLimiter({"memory"}) /\ InitMiddleware /\ InitClientWith("reload")

Wait == ticks < MaxClientTicks /\ Settled /\ Advance({LOCKOUT_DURATION_MS})

NextUnlock ==
    \/ Wait
    \/ \E pw \in Passwords \ {""} : Type(pw)
    \/ Submit("ok")
    \/ Settle("ok")

SpecUnlock ==
    /\ InitUnlock /\ [][NextUnlock]_vars
    /\ WF_vars(Wait)
    /\ WF_vars(\E pw \in Passwords \ {""} : Type(pw))
    /\ WF_vars(Submit("ok"))
    /\ WF_vars(Settle("ok"))

\* a prompt that stays mounted while its groupId changes between two groups,
\* within one millisecond; the browser storages work
InitGroups == InitLimiter({"memory"}) /\ InitMiddleware /\ InitClientWith("groups")

NextGroups ==
    \/ \E pw \in Passwords \ {""} : Type(pw)
    \/ Submit("groups")
    \/ Settle("groups")
    \/ \E g \in GroupIds : ChangeGroup(g, "groups")
    \/ Rerender("groups")

SpecGroups == InitGroups /\ [][NextGroups]_vars

\* the prompt in a browser whose localStorage may refuse every access and
\* holds whatever other code of the page has put under the keys; the page is
\* loaded again at any time; within one millisecond
InitStorage == InitLimiter({"memory"}) /\ InitMiddleware /\ InitClientWith("storage")

NextStorage ==
    \/ Reload("storage")
    \/ Rerender("storage")
    \/ \E op \in SafeOps, text \in Texts : SafeCall(op, props.groupId, text, "storage")

SpecStorage == InitStorage /\ [][NextStorage]_vars

-----------------------------------------------------------------------------
(* Claims *)

Abs(x) == IF x < 0 THEN -x ELSE x

\* the identity the last completed call was made for
LastId == ToLowerCase(lastOp.email)

\* C1: on the in-memory backend, after k recorded failures of one identity
\* inside one window and no clear in between, a check inside that window
\* reports not limited with MAX_ATTEMPTS - k remaining for k < MAX_ATTEMPTS,
\* and limited with retryAfter > 0 for k = MAX_ATTEMPTS, where retryAfter is
\* the lockout duration in seconds (within 1 s) when checked at once
C1_CountedFailures ==
    (/\ lastOp.op = "check"
     /\ gCount[LastId] <= MAX_ATTEMPTS
     /\ gCount[LastId] > 0 => lastOp.at - gFirst[LastId] <= WINDOW_MS)
    => IF gCount[LastId] < MAX_ATTEMPTS
       THEN lastOp.res = Result(FALSE, -1, MAX_ATTEMPTS - gCount[LastId])
       ELSE /\ lastOp.res.isLimited
            /\ lastOp.res.retryAfter > 0
            /\ lastOp.res.remainingAttempts = -1
            /\ lastOp.at - gLast[LastId] < 1000
                  => Abs(lastOp.res.retryAfter - LOCKOUT_MS \div 1000) <= 1

C1_Witness ==
    /\ lastOp.op = "check"
    /\ gCount[LastId] = MAX_ATTEMPTS
    /\ lastOp.at - gFirst[LastId] <= WINDOW_MS
    /\ lastOp.at > gLast[LastId]
    /\ lastOp.res.isLimited

\* C2: once recordFailedAttempt has set lockedUntil = L for an identity,
\* every check made before L reports limited, whatever records and checks
\* happen in between (only a clear ends the lock early)
C2_LockAbsolute ==
    (lastOp.op = "check" /\ lastOp.at < gLock[LastId]) => lastOp.res.isLimited

C4_WindowElapsed ==
    /\ (lastOp.op = "check" /\ lastOp.expired)
          => lastOp.res = NotLimitedFull /\ lastOp.left = NoRec
    /\ (lastOp.op = "record" /\ lastOp.afterExpired)
          => lastOp.left = Rec(1, lastOp.at, 0)

C4_Witness ==
    /\ lastOp.op = "record"
    /\ lastOp.afterExpired
    /\ gCount[LastId] >= 3
    /\ lastOp.left.count = 1

\* C5: if an identity is locked until L and no failure is recorded for it
\* afterwards, every check at or after L reports not limited
C5_LockExpires ==
    (/\ lastOp.op = "check"
     /\ gLock[LastId] # 0
     /\ gLockLast[LastId]
     /\ lastOp.at >= gLock[LastId])
    => ~lastOp.res.isLimited

C5_Witness ==
    /\ lastOp.op = "check"
    /\ gLock[LastId] # 0
    /\ gLockLast[LastId]
    /\ lastOp.at = gLock[LastId]
    /\ lastOp.res = NotLimitedFull

\* C6: for two spellings of one identity, each of checkRateLimit,
\* recordFailedAttempt, clearAttempts and their Async variants returns the
\* same result and leaves the same module state under either spelling
C6_CaseInsensitive ==
    Quiescent =>
      \A e1, e2 \in Emails :
        SameIdentity(e1, e2) =>
          /\ checkRateLimit(World, e1, now) = checkRateLimit(World, e2, now)
          /\ recordFailedAttempt(World, tasks, e1, now)
                = recordFailedAttempt(World, tasks, e2, now)
          /\ clearAttempts(World, e1) = clearAttempts(World, e2)
          /\ \A op \in {"check", "record", "clear"}, q \in BOOLEAN :
                RunCall(World, op, e1, q, now) = RunCall(World, op, e2, q, now)

\* a check under one spelling counts the one failure recorded, under the other
C6_Witness ==
    /\ lastOp.op = "check"
    /\ faults = 0
    /\ gSpelling[LastId] # <<>>
    /\ gSpelling[LastId] # lastOp.email
    /\ Stored(LastId).count = 1
    /\ lastOp.res = Result(FALSE, -1, MAX_ATTEMPTS - 1)

\* the identity's record is in place for concurrent async calls to count on:
\* every failure since the last clear was recorded by recordFailedAttemptAsync
\* and no clear overlapped one
Counted(k) == Quiescent /\ gClean[k] /\ gCount[k] >= 1

\* C7: on the database backend, after N concurrent recordFailedAttemptAsync
\* calls for one identity inside one window have all returned, the row holds
\* count N, and lockedUntil is set once N reaches MAX_ATTEMPTS
C7_AtomicIncrement ==
    \A k \in Identities :
      (STORAGE_TYPE = "database" /\ Counted(k))
      => /\ table[k].count = gCount[k]
         /\ gCount[k] >= MAX_ATTEMPTS => table[k].lockedUntil # 0

\* C8: on the in-memory backend, after N concurrent recordFailedAttemptAsync
\* calls for one identity (also when no record existed) have all returned,
\* the stored count is N
C8_NoLostUpdate ==
    \A k \in Identities :
      (STORAGE_TYPE = "memory" /\ Counted(k))
      => Stored(k).count = gCount[k]

\* C9: a failing query never surfaces: no async call raises, a
\* checkRateLimitAsync whose get did not reach the table reports not limited
\* with MAX_ATTEMPTS remaining, and get returns null and set, delete and
\* cleanup return normally, changing nothing, when their query fails
C9_DegradesSilently ==
    /\ \A t \in Tasks : ~tasks[t].raised
    /\ ~lastOp.raised
    /\ (lastOp.op = "check" /\ lastOp.async /\ lastOp.getFailed)
          => lastOp.res = NotLimitedFull
    /\ \A k \in AllKeys :
          /\ DatabaseGet(World, k, FALSE) = [ret |-> NoRec, threw |-> FALSE]
          /\ DatabaseSet(World, k, Rec(1, now, 0), FALSE) = [w |-> World, threw |-> FALSE]
          /\ DatabaseDelete(World, k, FALSE) = [w |-> World, threw |-> FALSE]
    /\ DatabaseCleanup(World, now, FALSE) = [w |-> World, threw |-> FALSE]

C9_Witness ==
    /\ lastOp.op = "check"
    /\ lastOp.async
    /\ lastOp.getFailed
    /\ storage.kind = "db"
    /\ table[LastId].count >= 1
    /\ lastOp.res = NotLimitedFull

\* C10: with RATE_LIMIT_STORAGE=auto and the table unreachable, every call
\* that completes while no other call is in flight returns what the same
\* call returns in a process with RATE_LIMIT_STORAGE=memory that was given
\* the same calls at the same times
C10_AutoEqualsMemory ==
    (Quiescent /\ lastOp.op # "none")
    => (lastOp.op = twinOp.op /\ lastOp.res = twinOp.res)

\* the times at which C11 compares the two wrappers: at once, at and past
\* the end of the window, at and past the end of a lock
ProbeTimes ==
    {now, now + WINDOW_MS, now + WINDOW_MS + 1, now + LOCKOUT_MS, now + LOCKOUT_MS + 1}

\* the records a module state holds in the storage in use
StoredView(w) == [k \in AllKeys |-> StoredIn(w, k)]

\* C11: when the storage in use is the in-memory store, each Async wrapper,
\* awaited with nothing in between, returns the same result and leaves the
\* same stored records and the same storage selection as its synchronous
\* counterpart run in the same state at the same time
C11_SyncAsyncAgree ==
    (Quiescent /\ storage.kind = "mem") =>
      \A e \in Emails, tm \in ProbeTimes :
        LET sc == checkRateLimit(World, e, tm)
            ac == RunCall(World, "check", e, TRUE, tm)
            sr == recordFailedAttempt(World, tasks, e, tm)
            ar == RunCall(World, "record", e, TRUE, tm)
            sd == clearAttempts(World, e)
            ad == RunCall(World, "clear", e, TRUE, tm)
        IN  /\ sc.res = ac.res /\ ~ac.raised
            /\ StoredView(sc.w) = StoredView(ac.w) /\ sc.w.storage = ac.w.storage
            /\ ~sr.spawn /\ ~ar.raised
            /\ StoredView(sr.w) = StoredView(ar.w) /\ sr.w.storage = ar.w.storage
            /\ ~sd.spawn /\ ~ad.raised
            /\ StoredView(sd.w) = StoredView(ad.w) /\ sd.w.storage = ad.w.storage

\* checkRateLimitAsync has just reported the lock the in-memory store holds
C11_Witness ==
    /\ Quiescent
    /\ storage.kind = "mem"
    /\ lastOp.op = "check"
    /\ lastOp.async
    /\ lastOp.res.isLimited
    /\ Stored(LastId).count >= MAX_ATTEMPTS
    /\ checkRateLimit(World, lastOp.email, now).res = lastOp.res

\* the times at which a sweep of the records `view` is examined: now, and
\* the last instant before and the first instant after each record expires
SweepTimes(view) ==
    {now} \cup UNION {{view[k].firstAttempt + WINDOW_MS,
                       view[k].firstAttempt + WINDOW_MS + 1,
                       view[k].lockedUntil, view[k].lockedUntil + 1} :
                      k \in {x \in AllKeys : view[x] # NoRec}}

\* what a sweep at time tm has to leave of the records `view`
SweptView(view, tm) ==
    [k \in AllKeys |->
        IF \/ view[k].lockedUntil # 0 /\ tm > view[k].lockedUntil
           \/ view[k].lockedUntil = 0 /\ tm - view[k].firstAttempt > WINDOW_MS
        THEN NoRec ELSE view[k]]

\* C12: a sweep removes a record iff it has a lock and now > lockedUntil, or
\* has no lock and now - firstAttempt > WINDOW_MS, and changes nothing else;
\* MemoryStorage.cleanup and the DELETE of DatabaseStorage.cleanup (when the
\* query reaches the table) remove the same records
C12_SweepExact ==
    /\ \A i \in DOMAIN memInst :
          LET view == [k \in AllKeys |-> MapGet(World, i, k)]
          IN  \A tm \in SweepTimes(view) :
                LET w1 == MemoryCleanup(World, i, tm)
                    d == DatabaseCleanup([World EXCEPT !.table = view], tm, TRUE)
                IN  /\ [k \in AllKeys |-> MapGet(w1, i, k)] = SweptView(view, tm)
                    /\ [w1 EXCEPT !.memInst[i] = memInst[i]] = World
                    /\ d.w.table = SweptView(view, tm)
    /\ \A tm \in SweepTimes(table) :
          LET d == DatabaseCleanup(World, tm, TRUE)
          IN  /\ ~d.threw
              /\ d.w.table = SweptView(table, tm)
              /\ [d.w EXCEPT !.table = table] = World
              /\ \A k \in AllKeys :
                    table[k] # NoRec =>
                       CleanupExpired(table[k], tm) = DatabaseExpired(table[k], tm)
    /\ lastOp.op = "cleanup"
          => [k \in AllKeys |-> Stored(k)] = SweptView(lastOp.before, lastOp.at)

\* the timer has just removed an expired lock and kept a record whose
\* window is still open
C12_Witness ==
    /\ lastOp.op = "cleanup"
    /\ lastOp.at = now
    /\ \E k1, k2 \in Identities :
          /\ lastOp.before[k1].lockedUntil # 0
          /\ now > lastOp.before[k1].lockedUntil
          /\ Stored(k1) = NoRec
          /\ lastOp.before[k2] # NoRec
          /\ now - lastOp.before[k2].firstAttempt <= WINDOW_MS
          /\ Stored(k2) = lastOp.before[k2]

\* the storage in use holds an expired record for key k
Expired(k) == Stored(k) # NoRec /\ CleanupExpired(Stored(k), now)

\* C13: on either backend a record that has expired is deleted in the end,
\* without any further request for its identity
C13_EventuallySwept ==
    \A k \in Identities : Expired(k) ~> ~Expired(k)

\* the part of C13 that the in-memory backend meets
C13_MemoryEventuallySwept ==
    \A k \in Identities : (STORAGE_TYPE = "memory" /\ Expired(k)) ~> ~Expired(k)

\* the requests the middleware has decided on: those inside next() and the
\* last one that left the server
Decided == {reqs[r] : r \in {x \in Reqs : reqs[x].pc = "next"}} \cup {mwLast}

\* C14: a request that carries a groupId is checked once under the key
\* operation:groupId; if the key is limited it fails with TOO_MANY_REQUESTS
\* and the seconds to wait, next is not invoked and nothing is recorded;
\* otherwise one attempt is recorded, before next is invoked, and no request
\* is ever suspended between its check and its record, so that no more than
\* maxAttempts requests for a key reach next
C14_CheckThenRecord ==
    /\ \A rq \in Decided :
          rq.raw # "" =>
            /\ rq.groupId = rq.raw
            /\ rq.checks = 1
            /\ IF rq.limited
               THEN /\ rq.code = "TOO_MANY_REQUESTS"
                    /\ rq.retry >= 1
                    /\ rq.nexts = 0
                    /\ rq.records = 0
                    /\ rq.untouched
               ELSE /\ rq.code = "none"
                    /\ rq.records = 1
                    /\ rq.recordedFirst
                    /\ rq.nexts = 1
    /\ \A r \in Reqs : reqs[r].checks = 1 => reqs[r].records = 1 /\ reqs[r].pc = "next"
    /\ \A k \in OpKeys :
          /\ passed[k] <= PERMANENT_DELETE_MAX
          /\ opAttempts[k].count = passed[k]

\* a request has been turned away while the fifth request for its group is
\* still inside next
C14_Witness ==
    /\ mwLast.limited
    /\ mwLast.code = "TOO_MANY_REQUESTS"
    /\ mwLast.retry = HOUR_MS \div 1000
    /\ passed[OpKey(mwLast.operation, mwLast.groupId)] = PERMANENT_DELETE_MAX
    /\ \E r \in Reqs :
          /\ reqs[r].pc = "next"
          /\ reqs[r].groupId = mwLast.groupId
          /\ reqs[r].records = 1

-----------------------------------------------------------------------------
(* The password prompt *)

\* the last handleSubmit that has returned was given a password
Submitted == lastSub.outcome \notin {"none", "empty"}

\* C15: with every browser storage working, a submission that follows five
\* wrong passwords in a row inside the window is rejected as rate-limited,
\* whatever password it carries, and nothing is handed to onSuccess; a
\* submission of the correct password made once the lockout has passed
\* succeeds and hands onSuccess a key of the length of the group's key.
C15_LockoutEndToEnd ==
    Submitted =>
        /\ lastSub.priorWrong >= RATE_LIMIT_ATTEMPTS
              => lastSub.outcome = "limited" /\ lastSub.successes = 0
        /\ lastSub.afterLock /\ lastSub.password = "good"
              => /\ lastSub.outcome = "ok"
                 /\ lastSub.successes = 1
                 /\ lastSub.key.len = GroupKey(props).len
                 /\ lastSub.key.len = KeyLengthBytes(props.urlKeyLen)

C15_Witness ==
    /\ lastSub.afterLock
    /\ lastSub.password = "good"
    /\ lastSub.probe = "valid"
    /\ lastSub.outcome = "ok"
    /\ lastSub.key.len = 16
    /\ Len(ui.attempts) = 0

\* the sixth submission carried the correct password
C15_SixthCorrect ==
    /\ lastSub.priorWrong >= RATE_LIMIT_ATTEMPTS
    /\ lastSub.password = "good"
    /\ lastSub.outcome = "limited"

\* C16: whatever fails in the browser, a submission rejected as rate-limited
\* has called none of deriveKeyFromPassword, combineKeys and decrypt, has
\* appended no attempt and has not called onSuccess; a submission that was
\* let through calls decrypt at most once, and never before the key is
\* derived.
C16_LockoutGatesAll ==
    /\ lastSub.outcome = "limited"
          => /\ lastSub.derives = 0 /\ lastSub.combines = 0 /\ lastSub.decrypts = 0
             /\ lastSub.appended = 0 /\ lastSub.successes = 0
             /\ Len(lastSub.left.attempts) >= RATE_LIMIT_ATTEMPTS \/ lastSub.left.lockedUntil > now
    /\ \A s \in {sub, lastSub} :
          /\ s.decrypts <= 1
          /\ s.derives <= 1
          /\ s.decrypts = 1 => s.derives = 1 /\ s.probe # "none"

C16_Witness ==
    /\ lastSub.outcome = "limited"
    /\ lastSub.password = "good"
    /\ lastSub.probe = "valid"
    /\ Len(lastSub.left.attempts) = RATE_LIMIT_ATTEMPTS
    /\ lastSub.left.lockedUntil = now + LOCKOUT_DURATION_MS
    /\ lastSub.left.error = "tooManyAttempts"

\* C17: after a handleSubmit that called onSuccess, the attempts list is
\* empty, lockedUntil is null and the state stored under the group's lockout
\* key holds no failure and no lock.
C17_SuccessResets ==
    lastSub.outcome = "ok" =>
        /\ lastSub.left.attempts = <<>>
        /\ lastSub.left.lockedUntil = 0
        /\ lastSub.left.stored = [attempts |-> <<>>, lockedUntil |-> 0]

\* the causes for which an approved submission fails
Causes == {"salt", "derive", "combine", "decrypt", "session"}

\* C18: a submission that was let through and failed, whatever the cause
\* (salt decoding or derivation threw, combine threw, decrypt rejected the
\* key or a malformed probe, the session write threw), has appended exactly
\* one attempt, shows the generic 'invalid' error, has cleared the password,
\* has put the loading flag back to false and has not called onSuccess.
C18_FailuresUniform ==
    /\ lastSub.outcome = "failed" <=> lastSub.cause \in Causes
    /\ lastSub.outcome = "failed"
          => /\ lastSub.appended = 1
             /\ Len(lastSub.left.attempts) >= 1
             /\ lastSub.left.attempts[Len(lastSub.left.attempts)] = now
             /\ lastSub.left.error = "invalid"
             /\ lastSub.left.password = ""
             /\ ~lastSub.left.isLoading
             /\ lastSub.successes = 0
    /\ lastSub.outcome \in {"ok", "limited", "empty"} => lastSub.appended = 0

\* the correct password against a malformed probe
C18_Witness ==
    /\ lastSub.outcome = "failed"
    /\ lastSub.cause = "decrypt"
    /\ lastSub.probe = "malformed"
    /\ lastSub.password = "good"
    /\ Len(lastSub.left.attempts) = 2

C18_SaltThrew == lastSub.outcome = "failed" /\ lastSub.cause = "salt"

C18_DeriveThrew == lastSub.outcome = "failed" /\ lastSub.cause = "derive"

C18_WrongKey ==
    lastSub.outcome = "failed" /\ lastSub.cause = "decrypt" /\ lastSub.probe = "valid"

C20_KeyLengthFromUrlKey ==
    \A s \in {sub, lastSub} :
        /\ s.derives = 1
              => s.deriveLen = (IF s.urlKeyLen # 0 THEN s.urlKeyLen ELSE 32)
        /\ s.combines = 1
              => /\ s.urlKeyLen # 0
                 /\ s.passwordKey.len = s.urlKeyLen
                 /\ s.finalKey = combineKeys(UrlKey(s.urlKeyLen), s.passwordKey).key
                 /\ s.finalKey.len = s.urlKeyLen
        /\ s.combines = 0 /\ s.passwordKey # NoKey
              => s.urlKeyLen = 0 /\ s.finalKey = s.passwordKey /\ s.finalKey.len = 32
        /\ ~s.mismatch
        /\ s.cause # "combine"

C20_Witness ==
    /\ lastSub.urlKeyLen = 16
    /\ lastSub.probe = "valid"
    /\ lastSub.deriveLen = 16
    /\ lastSub.combines = 1
    /\ lastSub.finalKey = [len |-> 16, pw |-> "good", url |-> TRUE]
    /\ lastSub.outcome = "ok"

\* without a URL key the derived key is the final key
C20_NoUrlKey ==
    /\ lastSub.urlKeyLen = 0
    /\ lastSub.combines = 0
    /\ lastSub.key = [len |-> 32, pw |-> "good", url |-> FALSE]
    /\ lastSub.outcome = "ok"

\* a group without a probe on faulty ground fails for a cause other than
\* salt decoding, derivation or the session write
C19_OtherCause ==
    /\ lastSub.probe = "none"
    /\ lastSub.outcome = "failed"
    /\ lastSub.cause \notin {"salt", "derive", "session"}

-----------------------------------------------------------------------------
(* The page that holds the prompt *)

\* what is stored for the group of the prompt
Persisted == StoredState(local.lockout[props.groupId])

\* the last mount has restored and left stored what was still running
MountRestored ==
    /\ page.restored.lockedUntil = page.expected.lockedUntil
    /\ page.restored.attempts = page.expected.attempts
    /\ page.kept.lockedUntil = page.expected.lockedUntil
    /\ page.kept.attempts = page.expected.attempts

\* C21: once the prompt has mounted again for the same group, the lock that
\* was running when it was unmounted and the failures that are still inside
\* the window are in effect again and are stored again; and while a mount
\* is under way the stored state still holds them.
C21_ReloadKeepsLockout ==
    /\ page.phase = "mounted" /\ page.reloads > 0 => MountRestored
    /\ page.phase = "effects"
          => StillRunning(Persisted, now) = StillRunning(page.held, now)

\* a mount that was left to finish gives back what was running
C21_WholeMountRestores ==
    page.phase = "mounted" /\ page.reloads > 0 /\ ~page.cut => MountRestored

\* a lock and five failures were given back by a mount
C21_LockRestored ==
    /\ page.phase = "mounted" /\ page.reloads > 0 /\ ~page.cut
    /\ page.expected.lockedUntil > now
    /\ Len(page.expected.attempts) = RATE_LIMIT_ATTEMPTS
    /\ MountRestored
    /\ Disabled(ui)

\* every mount that has ended gives back what was running
C21_EndedMountRestores ==
    page.phase = "mounted" /\ page.reloads > 0 => MountRestored

\* C22: what is stored under the lockout key of a group holds failures only
\* if an attempt has failed for that group and a lock only if a submission
\* was rejected for that group; and the failures and the lock in effect in
\* the prompt are of the group it shows.
C22_ScopedPerGroup ==
    /\ \A g \in GroupIds :
          /\ StoredState(local.lockout[g]).attempts # <<>> => g \in page.failedFor
          /\ StoredState(local.lockout[g]).lockedUntil > 0 => g \in page.lockedFor
    /\ page.phase = "mounted"
          => /\ ui.attempts # <<>> => props.groupId \in page.failedFor
             /\ ui.lockedUntil > 0 => props.groupId \in page.lockedFor

\* the calls of lib/storage.ts return, with the value of the contract when
\* the access to localStorage threw or the stored text does not parse
SafeAccess ==
    LET c == page.safe
    IN  /\ ~c.res.threw
        /\ c.op = "safeGetItem"
              => c.res.kind = (IF c.failed \/ c.held.kind = "null" THEN "null" ELSE "text")
        /\ c.op = "safeGetJSON"
              => c.res.kind = (IF c.failed \/ c.held.kind \in {"null", "malformed"}
                               THEN "default" ELSE "parsed")
        /\ c.op \in {"safeSetItem", "safeSetJSON", "safeRemoveItem"}
              => c.res.kind = (IF c.failed THEN "false" ELSE "true")

\* C23: whatever localStorage does and holds, the calls of lib/storage.ts
\* return the value of their contract, loadRateLimitState yields 'no stored
\* state' unless a RateLimitState is stored and can be read, and the mount
\* and persist effects of the prompt end without an uncaught exception.
C23_StorageNeverRaises ==
    /\ SafeAccess
    /\ page.found = "value" <=> page.foundIn = "state"
    /\ page.phase # "crashed"

\* the safe calls were made against a refusing localStorage and against a
\* text that does not parse
C23_SafeCalls ==
    /\ page.safe.op = "safeGetJSON"
    /\ page.safe.held = Malformed
    /\ page.safe.res.kind = "default"

\* the last handleSubmit went past the verification of the password
Verified ==
    /\ lastSub.outcome \in {"ok", "failed"}
    /\ lastSub.cause \notin {"salt", "derive", "combine", "decrypt"}

\* C24: a handleSubmit whose password was verified calls onSuccess with the
\* final key, appends no failed attempt and shows no 'invalid' error, also
\* when the write of the key to localStorage or to sessionStorage throws.
C24_StorageFailureNotWrongPassword ==
    Verified =>
        /\ lastSub.outcome = "ok"
        /\ lastSub.successes = 1
        /\ lastSub.key = lastSub.finalKey
        /\ lastSub.appended = 0
        /\ lastSub.left.error # "invalid"

\* a throwing localStorage alone does not fail the unlock
C24_LocalWriteFails ==
    /\ Verified
    /\ lastSub.outcome = "ok"
    /\ local.key = <<>>
    /\ local.session # <<>>

\* C25: at most one handleSubmit is between the start of its key derivation
\* and its end at any time; while one is, the loading flag is true and the
\* input and the submit button are disabled, so that no other submission
\* starts.
C25_OneAttemptInFlight ==
    /\ page.inflight <= 1
    /\ page.inflight = 1 <=> sub.pc # "idle"
    /\ sub.pc # "idle" => ui.isLoading /\ Disabled(ui) /\ sub.derives = 1
    /\ sub.pc = "idle" => sub = NoSub

\* a second attempt is under way after the first has ended
C25_Witness ==
    /\ sub.pc = "decrypt"
    /\ page.inflight = 1
    /\ lastSub.outcome = "failed"
    /\ ui.password = "good"
    /\ ui.isLoading

\* C26: the loading flag is true exactly while a handleSubmit is between
\* setIsLoading(true) and its end, and, the promises it awaits settling, a
\* flag that is true becomes false again: on success, on a wrong password
\* and on an exception of the derivation or of a storage.
C26_LoadingFlagReleased ==
    /\ [](ui.isLoading <=> sub.pc # "idle")
    /\ [](lastSub.outcome # "none" => ~lastSub.left.isLoading)
    /\ (ui.isLoading ~> ~ui.isLoading)

\* an attempt has ended by the exception of a storage, the flag is down
C26_Witness ==
    /\ lastSub.outcome = "failed"
    /\ lastSub.cause = "session"
    /\ lastSub.derives = 1
    /\ ~ui.isLoading
    /\ ~Disabled(ui)

-----------------------------------------------------------------------------
(* The session checks *)

\* C27: publicProcedure lets every request pass in public-instance mode; in
\* private-instance mode it rejects a request without session user with
\* UNAUTHORIZED 'Authentication required', else a user with
\* requiresTwoFactor with UNAUTHORIZED 'Two-factor authentication required'
\* (mustChangePassword set or not), else a user with mustChangePassword with
\* FORBIDDEN 'Password change required', and lets every other request pass;
\* checkPublicProcedure of the tests answers the same.
C27_PublicPrecedence ==
    LET c == app.last
        user == c.session
    IN  c.proc = "public" =>
          /\ ~c.private => c.res = Passes
          /\ c.private /\ user.kind # "user"
                => c.res = TRPCError("UNAUTHORIZED", "Authentication required")
          /\ c.private /\ user.kind = "user" /\ user.requiresTwoFactor
                => c.res = TRPCError("UNAUTHORIZED", "Two-factor authentication required")
          /\ c.private /\ user.kind = "user" /\ ~user.requiresTwoFactor
                       /\ user.mustChangePassword
                => c.res = TRPCError("FORBIDDEN", "Password change required")
          /\ c.private /\ user.kind = "user" /\ ~user.requiresTwoFactor
                       /\ ~user.mustChangePassword
                => c.res = Passes
          /\ c.mirror = c.res

C27_Witness ==
    /\ app.last.proc = "public"
    /\ app.last.private
    /\ app.last.session.kind = "user"
    /\ app.last.session.requiresTwoFactor
    /\ app.last.session.mustChangePassword
    /\ app.last.res.message = "Two-factor authentication required"

\* C28: adminProcedure rejects every request with NOT_FOUND in
\* public-instance mode; in private-instance mode it rejects, in this order,
\* a missing user (UNAUTHORIZED), a pending second factor (UNAUTHORIZED), a
\* required password change (FORBIDDEN) and a user who is no admin
\* (FORBIDDEN 'Admin access required'); what it lets pass, publicProcedure
\* lets pass; checkAdminProcedure of the tests answers the same.
C28_AdminPrecedence ==
    LET c == app.last
        user == c.session
    IN  c.proc = "admin" =>
          /\ ~c.private => c.res.code = "NOT_FOUND"
          /\ c.private /\ user.kind # "user"
                => c.res = TRPCError("UNAUTHORIZED", "Authentication required")
          /\ c.private /\ user.kind = "user" /\ user.requiresTwoFactor
                => c.res = TRPCError("UNAUTHORIZED", "Two-factor authentication required")
          /\ c.private /\ user.kind = "user" /\ ~user.requiresTwoFactor
                       /\ user.mustChangePassword
                => c.res = TRPCError("FORBIDDEN", "Password change required")
          /\ c.private /\ user.kind = "user" /\ ~user.requiresTwoFactor
                       /\ ~user.mustChangePassword /\ ~user.isAdmin
                => c.res = TRPCError("FORBIDDEN", "Admin access required")
          /\ c.private /\ user.kind = "user" /\ ~user.requiresTwoFactor
                       /\ ~user.mustChangePassword /\ user.isAdmin
                => c.res = Passes
          /\ c.res = Passes => c.public = Passes
          /\ c.mirror = c.res

C28_Witness ==
    /\ app.last.proc = "admin"
    /\ app.last.private
    /\ app.last.session.kind = "user"
    /\ ~app.last.session.isAdmin
    /\ app.last.session.mustChangePassword
    /\ app.last.res = TRPCError("FORBIDDEN", "Password change required")

\* an admin is let through by both
C28_AdminPasses ==
    app.last.proc = "admin" /\ app.last.res = Passes /\ app.last.public = Passes

\* C29: in private-instance mode a POST to the upload route without session
\* user is answered 401 and s3Handler is not invoked; in public mode every
\* POST is handed to s3Handler.
C29_UploadNeedsSession ==
    LET c == app.last
    IN  c.proc = "upload" =>
          /\ c.private /\ c.session.kind # "user" => c.status = 401 /\ ~c.s3
          /\ ~c.private => c.s3
          /\ c.s3 <=> c.status # 401

C29_Witness ==
    /\ app.last.proc = "upload"
    /\ app.last.private
    /\ app.last.session.kind = "nouser"
    /\ app.last.status = 401
    /\ ~app.last.s3

-----------------------------------------------------------------------------
(* The balances hook *)

\* the decryption of the last effect failed: the expenses are [], the error
\* is set, no balances and no reimbursements are computed
FailedDecryptionShown ==
    (hook.who = "useBalances" /\ hook.done = "failed") =>
        /\ useBalances(hook).expenses.kind = "empty"
        /\ useBalances(hook).decryptionError
        /\ useBalances(hook).balances = "nothing"
        /\ useBalances(hook).reimbursements = "nothing"

\* C30: when the decryption of the expenses has failed the hook returns []
\* as expenses, an Error as decryptionError and empty balances and
\* reimbursements; and while the render has a key in use the hook never
\* returns the raw expenses as expenses nor balances computed from them.
C30_NoBalancesFromCiphertext ==
    /\ FailedDecryptionShown
    /\ (hook.who = "useBalances" /\ ShouldDecryptWithKey(hook.in))
          => /\ useBalances(hook).expenses.kind # "raw"
             /\ useBalances(hook).balances # "raw"

\* a decryption with another key has failed
C30_FailureReached ==
    /\ hook.who = "useBalances"
    /\ hook.done = "failed"
    /\ hook.in.key = "k2"
    /\ hook.in.raw = "A"
    /\ useBalances(hook).expenses.kind = "empty"

\* raw expenses returned while a key is in use are always about to be
\* replaced: the decryption that replaces them is under way
RawOnlyWhileDecrypting ==
    (/\ hook.who = "useBalances"
     /\ ShouldDecryptWithKey(hook.in)
     /\ useBalances(hook).expenses.kind = "raw")
        => hook.run.pending \/ ~hook.mounted

-----------------------------------------------------------------------------
(* One window per identity for the sync and the async API *)

\* what a check answers after c failures recorded within one millisecond
AnswerAfter(c) ==
    IF c >= MAX_ATTEMPTS THEN Result(TRUE, Ceil(LOCKOUT_MS, 1000), -1)
    ELSE Result(FALSE, -1, MAX_ATTEMPTS - c)

\* C31: in memory mode, from a fresh process, every check (checkRateLimit or
\* checkRateLimitAsync) counts every failure recorded before it for the
\* identity, whether it was recorded through recordFailedAttempt or through
\* recordFailedAttemptAsync.
C31_OneWindowPerIdentity ==
    (lastOp.op = "check" /\ Quiescent) => lastOp.res = AnswerAfter(gCount[lastOp.email])

\* a failure recorded through recordFailedAttemptAsync is counted by a later
\* checkRateLimit
C31_AsyncThenSync ==
    /\ lastOp.op = "check" /\ ~lastOp.async
    /\ gCount[lastOp.email] = 1
    /\ storage.kind = "mem"
    /\ lastOp.res = AnswerAfter(1)

-----------------------------------------------------------------------------
(* The storage is selected once *)

\* every call that has its storage has the instance the module holds
SameInstance ==
    \A t \in Tasks : tasks[t].store # NullStore => tasks[t].store = storage

\* one DatabaseStorage is created, hence one probe of the table is made
\* (getStorage probes each instance it creates)
ProbedOnce == Len(dbInst) <= 1

\* a failure recorded in memory is in the instance the module holds
NoFailureStranded ==
    \A k \in Identities :
        (Quiescent /\ storage.kind = "mem" /\ gCount[k] > 0) => Stored(k).count > 0

\* C32: for every interleaving of concurrent first calls of getStorage, all
\* calls get the same storage instance, the database is probed once, and no
\* recorded failure is in an instance that later calls do not see.
C32_SelectedOnce == SameInstance /\ ProbedOnce /\ NoFailureStranded

\* a call holds an instance that is no longer the module's
C32_TwoInstances == ~SameInstance

\* both first calls fell back to memory, each to an instance of its own, and
\* the failure the first recorded is not in the instance that is kept
C32_Stranded ==
    /\ Quiescent
    /\ Len(memInst) = 2
    /\ storage = MemStore(2)
    /\ \E k \in Identities : gCount[k] > 0 /\ Stored(k).count = 0

-----------------------------------------------------------------------------
(* The synchronous check under the database backend *)

\* the database is the storage in use and holds MAX_ATTEMPTS failures of the
\* identity of the last call, recorded within the window
PersistedLimit ==
    /\ Quiescent
    /\ storage.kind = "db"
    /\ table[KeyOf(lastOp.email)].count >= MAX_ATTEMPTS
    /\ ~WindowExpired(table[KeyOf(lastOp.email)], now)

\* C33: once the database is the storage in use and MAX_ATTEMPTS failures of
\* an identity are persisted within one window, a check of that identity
\* that reads the table reports isLimited = TRUE, be it checkRateLimit or
\* checkRateLimitAsync.
C33_SyncCheckEnforces ==
    (lastOp.op = "check" /\ PersistedLimit /\ ~lastOp.getFailed) => lastOp.res.isLimited

\* checkRateLimitAsync reports the persisted limit
C33_AsyncLimited ==
    /\ lastOp.op = "check" /\ lastOp.async /\ PersistedLimit
    /\ lastOp.res.isLimited

\* checkRateLimit does not
C33_SyncNotLimited ==
    /\ lastOp.op = "check" /\ ~lastOp.async /\ PersistedLimit
    /\ lastOp.res = NotLimitedFull

-----------------------------------------------------------------------------
(* The in-memory store *)

\* the records of the MemoryStorage instances
StoredRecords ==
    {heap[id] : id \in {memInst[i][k] : i \in DOMAIN memInst, k \in AllKeys} \ {0}}

\* C36: after any sequence of checkRateLimit, recordFailedAttempt,
\* clearAttempts and cleanup, every stored record has count >= 1 and every
\* record with count >= MAX_ATTEMPTS has lockedUntil set; a check that is
\* not limited reports 1..MAX_ATTEMPTS remaining attempts, a check that is
\* limited reports a retryAfter of 1..ceil(LOCKOUT_MS / 1000) seconds.
C36_StoreInvariant ==
    /\ \A r \in StoredRecords :
          /\ r.count >= 1
          /\ r.count >= MAX_ATTEMPTS => r.lockedUntil # 0
    /\ lastOp.op = "check" =>
          IF lastOp.res.isLimited
          THEN lastOp.res.retryAfter \in 1..Ceil(LOCKOUT_MS, 1000)
          ELSE lastOp.res.remainingAttempts \in 1..MAX_ATTEMPTS

\* a check while part of the lock has gone by: less than the whole lockout
\* is left to wait
C36_Witness ==
    /\ lastOp.op = "check"
    /\ lastOp.res.isLimited
    /\ lastOp.res.retryAfter < Ceil(LOCKOUT_MS, 1000)
    /\ \E r \in StoredRecords :
          /\ r.count >= MAX_ATTEMPTS
          /\ lastOp.res.retryAfter = Ceil(r.lockedUntil - now, 1000)

\* the delays after which the sweep and the check are compared
SweepDelays == {0, 1, WINDOW_MS, WINDOW_MS + 1, LOCKOUT_MS, LOCKOUT_MS + 1}

\* checkRateLimit(e) at time t answers and leaves the same with and without
\* a sweep of instance i just before it, and so does a recordFailedAttempt(e)
\* that follows
SweepInvisibleAt(w, i, e, t) ==
    LET a == checkRateLimit(w, e, t)
        b == checkRateLimit(MemoryCleanup(w, i, t), e, t)
        ra == recordFailedAttempt(a.w, tasks, e, t).w
        rb == recordFailedAttempt(b.w, tasks, e, t).w
    IN  /\ a.res = b.res
        /\ StoredIn(a.w, KeyOf(e)) = StoredIn(b.w, KeyOf(e))
        /\ StoredIn(ra, KeyOf(e)) = StoredIn(rb, KeyOf(e))

\* C37: in every reachable state of the in-memory store, for every identity
\* and every later time, checkRateLimit returns the same result whether or
\* not cleanup ran just before it, and a recordFailedAttempt that follows
\* leaves the same record.
C37_SweepInvisible ==
    memoryStorage # 0 =>
        \A e \in Emails, d \in SweepDelays :
            SweepInvisibleAt(World, memoryStorage, e, now + d)

\* the store holds a lock that has ended: the sweep removes the record
C37_Witness ==
    /\ memoryStorage # 0
    /\ \E e \in Emails :
          /\ Stored(KeyOf(e)).lockedUntil # 0
          /\ CleanupExpired(Stored(KeyOf(e)), now)
          /\ MapGet(MemoryCleanup(World, memoryStorage, now), memoryStorage, KeyOf(e)) = NoRec
          /\ SweepInvisibleAt(World, memoryStorage, e, now)

-----------------------------------------------------------------------------
(* The bound on guesses in the browser *)

\* a lockout that began with a rejected submission is still running
LockActive == hist.lockFrom >= 0 /\ now < hist.lockFrom + LOCKOUT_DURATION_MS

\* the failure that was just recorded is at most the RATE_LIMIT_ATTEMPTS-th
\* of the window that ends with it
WindowBound ==
    lastSub.outcome = "failed" => lastSub.priorWrong + 1 <= RATE_LIMIT_ATTEMPTS

\* C34: with working storage, across submissions and reloads, while a
\* derivation or verification is under way no lockout is running and fewer
\* than RATE_LIMIT_ATTEMPTS failures lie inside the window that precedes it;
\* hence no failure is recorded beyond the RATE_LIMIT_ATTEMPTS-th of a window.
C34_BruteForceBound ==
    /\ sub.pc # "idle" =>
          /\ ~LockActive
          /\ Len(Recent(hist.wrong, now)) < RATE_LIMIT_ATTEMPTS
    /\ WindowBound

\* a sixth failure inside one window, on a page that was reloaded
C34_SixthFailure ==
    /\ lastSub.outcome = "failed"
    /\ lastSub.priorWrong >= RATE_LIMIT_ATTEMPTS
    /\ page.reloads > 0

\* a guess is being verified while the lockout runs
C34_GuessUnderLock == sub.pc # "idle" /\ LockActive

-----------------------------------------------------------------------------
(* The end of the lockout in the browser *)

\* the lockout of the prompt has passed
LockPassed == ui.lockedUntil # 0 /\ now >= ui.lockedUntil

\* C35: once lockedUntil has passed, the input and the submit button
\* eventually stop being disabled, with no reload and no other interaction.
C35_LockEndsByItself == LockPassed ~> ~Disabled(ui)

\* the lockout has passed and the controls are still disabled
C35_StillDisabled == LockPassed /\ Disabled(ui) /\ sub.pc = "idle"

\* in that state the prompt can do nothing: only the clock moves, and the
\* clock alone renders nothing
C35_OnlyTheClock ==
    C35_StillDisabled =>
        ~ENABLED ((\E pw \in Passwords \ {""} : Type(pw)) \/ Submit("ok") \/ Settle("ok"))

-----------------------------------------------------------------------------
(* Decrypted data follows its inputs *)

\* the component shows the decryption of the data it was last given
Follows ==
    /\ hook.decryptedExpenses = [kind |-> "plain", of |-> hook.in.raw]
    /\ ~hook.decryptionError

\* inputs from which the data can be decrypted
Decryptable == {in \in LoadedInputs : ~decryptExpenses(in.raw, in.key).threw}

\* C38: whenever the fetched expenses change, be it only in their contents,
\* or the key changes, the component eventually shows the expenses decrypted
\* from the latest data with the latest key, unless its inputs change again.
C38_FollowsInputs ==
    \A in \in Decryptable : (hook.in = in) ~> (hook.in # in \/ Follows)

\* the data was refetched with the same ids and other contents: the effect
\* skipped it and the component shows the decryption of the old data
C38_StaleContents ==
    /\ hook.in.raw = "A2"
    /\ hook.in.key = "k1"
    /\ hook.done = "skipped"
    /\ hook.decryptedExpenses = [kind |-> "plain", of |-> "A"]
    /\ ~hook.run.pending /\ ~hook.old.pending

\* the key was replaced by the right one: the effect skipped it and the
\* component shows what the failure with the old key left
C38_StaleKey ==
    /\ hook.in.raw = "A"
    /\ hook.in.key = "k1"
    /\ hook.done = "skipped"
    /\ hook.decryptedExpenses.kind \in {"empty", "raw"}
    /\ ~hook.run.pending /\ ~hook.old.pending

\* in such a state no decryption is under way: nothing will change it
C38_NothingPending ==
    (C38_StaleContents \/ C38_StaleKey) => ~ENABLED (Decrypted \/ Superseded)

-----------------------------------------------------------------------------
(* Decryptions that were cleaned up *)

\* C39: a decrypt() whose effect was cleaned up, by a change of the
\* dependencies or by the unmount, sets neither the decrypted data, nor the
\* error, nor the last-decrypted marker when it completes.
C39_StaleNeverWrites == ~hook.staleWrote

\* a cleaned-up decrypt() has completed whose result differs from what the
\* component shows and from its marker
C39_Witness ==
    /\ hook.done = "stale"
    /\ ~hook.old.pending
    /\ hook.decryptedExpenses.of # hook.old.raw
    /\ hook.lastDecryptedRef # RefOf(hook.old.raw, TRUE)

\* the same after the unmount
C39_Unmounted ==
    /\ ~hook.mounted
    /\ hook.done = "stale"
    /\ hook.decryptedExpenses.of # hook.old.raw

====
